---- MODULE Spec2Model ----
(***************************************************************************)
(* Composite-key document store of server/document_store.py: the key and   *)
(* record codecs of DocumentStore and the three backends                   *)
(* (InMemoryDocumentStore, MongoDocumentStore, MongoEmbeddedDocumentStore) *)
(* driven in lockstep by the same sequence of operations, as the shared    *)
(* test classes of server/test_document_store.py drive them.               *)
(***************************************************************************)
EXTENDS Integers, Sequences, FiniteSets, TLC

(***************************************************************************)
(* Python values.  Scalars are integers: 0 stands for the falsy scalar of  *)
(* a type (0, "", False), the positive numbers for its other values in     *)
(* their natural order, and PyNone, a number that is none of them, for     *)
(* None.                                                                   *)
(***************************************************************************)
PyNone == 1000

MaxPart == 2
MaxSort == 2
MaxField == 1
MaxOps == 3
MaxBatch == 2
MaxConcSort == 3
MaxTTL == 2
MaxTime == 4
MaxList == 2
MaxFrame == 2
MaxCalls == 4
MaxBooks == 3
MaxWindow == 2
MaxKeyLen == 3
WindowSize == 20
SessionTtl == 3600

PartVals == 1..MaxPart
SortVals == {PyNone} \cup (0..MaxSort)
FieldVals == 0..MaxField

(***************************************************************************)
(* The state: the three stores (storage, flat, emb); attrs, the attribute  *)
(* names a store holds in _key_attrs, _partition_attrs and _sort_attrs     *)
(* (each store discovers them on the class of the first key it is given    *)
(* and keeps them; the stores are bound to one key type, so the model      *)
(* starts with them discovered, except where the discovery itself is       *)
(* followed); data_type and key_type, the value class and the key class    *)
(* the stores were constructed with; last, the call made last; nops, the   *)
(* number of records written and deleting calls made so far; calls, for    *)
(* each of two concurrent callers, the call it is in and how far it got    *)
(* (used when calls are taken step by step, idle otherwise); tables, the    *)
(* names of the collections that exist in the Mongo database; sessions,    *)
(* the _sessions dict of the InMemorySessionStore; now, the clock read by  *)
(* time.time(); uploads, what the server keeps in its Mongo stores: the    *)
(* libraries, the uploaded frames, the library's books, and the session    *)
(* ids it has issued.                                                      *)
(***************************************************************************)
VARIABLES storage, flat, emb, attrs, data_type, key_type, last, nops, calls,
          tables, sessions, now, uploads

Obj(cls, f) == [kind |-> "obj", cls |-> cls, f |-> f]
Dict(f) == [kind |-> "dict", f |-> f]
Tup(t) == [kind |-> "tuple", t |-> t]
Scalar(v) == [kind |-> "scalar", v |-> v]
NoneVal == [kind |-> "none"]

EmptyDict == [a \in {} |-> 0]

\* bool(v) is False for None, 0 and ""
Truthy(v) == v # PyNone /\ v # 0

\* d.get(a)
DictGet(d, a) == IF a \in DOMAIN d THEN d[a] ELSE PyNone

(***************************************************************************)
(* The annotated classes the stores are bound to: for each class its       *)
(* fields in declaration order, each with its marker and the marker's      *)
(* order.                                                                  *)
(***************************************************************************)
Field(n, m, o) == [name |-> n, marker |-> m, order |-> o]

MyKey == << Field("user_id", "PartitionKey", 0), Field("note_id", "SortKey", 0) >>
MyNote == << Field("title", "", 0), Field("category", "", 0) >>
CategoryIndex == << Field("category", "PartitionKey", 0) >>
OrderedKey ==
    << Field("suffix", "SortKey", 2), Field("prefix", "SortKey", 1),
       Field("partition", "PartitionKey", 0) >>
UserLibrary ==
    << Field("key", "CopyOfKey", 0), Field("name", "", 0), Field("created_at", "", 0) >>

Hints(cls) ==
    CASE cls = "MyKey" -> MyKey
      [] cls = "MyNote" -> MyNote
      [] cls = "CategoryIndex" -> CategoryIndex
      [] cls = "OrderedKey" -> OrderedKey
      [] cls = "UserLibrary" -> UserLibrary
      [] OTHER -> << >>

NamesOf(h) == { h[i].name : i \in 1..Len(h) }

FieldNames(cls) == NamesOf(Hints(cls))

\* list.sort(key=order): stable insertion of each element after the last
\* element whose order is not larger
RECURSIVE StableSort(_)
StableSort(s) ==
    IF Len(s) <= 1 THEN s
    ELSE LET rest == StableSort(SubSeq(s, 1, Len(s) - 1))
             x == s[Len(s)]
             pos == Cardinality({ i \in 1..Len(rest) : rest[i].order <= x.order })
         IN SubSeq(rest, 1, pos) \o << x >> \o SubSeq(rest, pos + 1, Len(rest))

\* the fields of h that carry marker m, in declaration order
Marked(h, m) ==
    LET F[n \in 0..Len(h)] ==
            IF n = 0 THEN << >>
            ELSE IF h[n].marker = m THEN Append(F[n - 1], h[n]) ELSE F[n - 1]
    IN F[Len(h)]

Names(s) == [ i \in 1..Len(s) |-> s[i].name ]

Discovered(partition_names, sort_names) ==
    [all |-> partition_names \o sort_names,
     partition |-> partition_names,
     sort |-> sort_names]

\* get_type_hints(cls, include_extras=True): raises for a class whose
\* annotations cannot be resolved
Unresolvable == {"Unresolved"}

GetTypeHints(cls) ==
    IF cls \in Unresolvable THEN [raised |-> TRUE, ret |-> << >>]
    ELSE [raised |-> FALSE, ret |-> Hints(cls)]

\* Variant: a class without markers has every field as a partition attribute.
DiscoverAttrsFor_AllFields(cls) ==
    IF Marked(Hints(cls), "PartitionKey") = << >> /\ Marked(Hints(cls), "SortKey") = << >>
    THEN Discovered(Names(Hints(cls)), << >>)
    ELSE Discovered(Names(StableSort(Marked(Hints(cls), "PartitionKey"))),
                    Names(StableSort(Marked(Hints(cls), "SortKey"))))

\* the except branch leaves p_attrs and s_attrs empty
DiscoverAttrsFor(cls) ==
    IF GetTypeHints(cls).raised THEN Discovered(<< >>, << >>)
    ELSE Discovered(Names(StableSort(Marked(GetTypeHints(cls).ret, "PartitionKey"))),
                    Names(StableSort(Marked(GetTypeHints(cls).ret, "SortKey"))))

\* Variant: the lists are assigned whether or not the key list is empty.
DiscoverAttrs_Unguarded(cur, cls) == DiscoverAttrsFor(cls)

\* _discover_attrs(cls): the three lists after the call, from the lists cur
DiscoverAttrs(cur, cls) == IF cur.all = << >> THEN DiscoverAttrsFor(cls) ELSE cur

\* type(obj)
TypeOf(obj) == IF obj.kind = "obj" THEN obj.cls ELSE obj.kind

\* the store configuration: the key_type and the data_type it was given
KeyType == key_type
DataType == data_type
\* self._key_attrs, self._partition_attrs, self._sort_attrs
KeyAttrs == attrs.all
PartitionAttrs == attrs.partition
SortAttrs == attrs.sort

Classes == {"MyKey", "MyNote", "CategoryIndex", "OrderedKey", "UserLibrary", "Unresolved"}

\* for each class, the names of its fields annotated with CopyOfKey
CopyOfKeyOf == [ cls \in Classes |-> NamesOf(Marked(Hints(cls), "CopyOfKey")) ]

CopyOfKeyFields(cls) == CopyOfKeyOf[cls]

IsPrivate(name) == name \in {"_id", "_cache"}

\* Variant: every truthy attribute of the object is kept.
DefaultToDict_KeepAll(obj) ==
    IF obj.kind = "obj"
    THEN [ a \in { b \in DOMAIN obj.f :
                     b \in CopyOfKeyFields(obj.cls) \/ IsPrivate(b) \/ Truthy(obj.f[b]) } |->
             obj.f[a] ]
    ELSE IF obj.kind = "dict" THEN obj.f
    ELSE [ a \in {"value"} |-> obj.v ]

DefaultToDict(obj) ==
    IF obj.kind = "obj"
    THEN [ a \in { b \in DOMAIN obj.f :
                     /\ b \notin CopyOfKeyFields(obj.cls)
                     /\ ~IsPrivate(b)
                     /\ Truthy(obj.f[b]) } |-> obj.f[a] ]
    ELSE IF obj.kind = "dict" THEN obj.f
    ELSE [ a \in {"value"} |-> obj.v ]

\* tuple(d.get(attr) for attr in key_attrs)
\* (a caller that passes no attrs passes the instance's KeyAttrs)
Project(d, key_attrs) == [ i \in 1..Len(key_attrs) |-> DictGet(d, key_attrs[i]) ]

GetKeyTuple(obj, key_attrs) ==
    IF obj.kind = "scalar" THEN << obj.v >>
    ELSE IF obj.kind = "tuple" THEN obj.t
    ELSE Project(IF obj.kind = "dict" THEN obj.f ELSE DefaultToDict(obj),
                 IF key_attrs = << >> /\ obj.kind = "obj"
                 THEN DiscoverAttrsFor(obj.cls).all
                 ELSE key_attrs)

\* the lists after `if not self._partition_attrs: self._discover_attrs(type(obj))`
PartitionResolved(obj) ==
    IF PartitionAttrs = << >> THEN DiscoverAttrs(attrs, TypeOf(obj)) ELSE attrs

\* the lists after `if not self._sort_attrs: self._discover_attrs(type(obj))`
SortResolved(obj) ==
    IF SortAttrs = << >> THEN DiscoverAttrs(attrs, TypeOf(obj)) ELSE attrs

PartitionKeyTuple(resolved, obj) ==
    IF resolved.partition # << >> THEN GetKeyTuple(obj, resolved.partition)
    ELSE GetKeyTuple(obj, resolved.all)

SortKeyTuple(resolved, obj) ==
    IF resolved.sort # << >> THEN GetKeyTuple(obj, resolved.sort) ELSE << >>

GetPartitionKeyTuple(obj) == PartitionKeyTuple(PartitionResolved(obj), obj)

GetSortKeyTuple(obj) == SortKeyTuple(SortResolved(obj), obj)

\* Variant: a field left out of kwargs takes a default.
CanConstruct_Defaults(cls, kwargs) == DOMAIN kwargs \subseteq FieldNames(cls)

\* cls(**kwargs) of a dataclass whose fields have no defaults
CanConstruct(cls, kwargs) == DOMAIN kwargs = FieldNames(cls)

\* key types returned as values[0], and classes with an __init__
Primitives == {"str", "int"}
IsClass(cls) == cls \notin Primitives \cup {"", "tuple"}

\* the lists after `if not self._key_attrs: self._discover_attrs(self.key_type)`
KeyResolved == IF IsClass(KeyType) THEN DiscoverAttrs(attrs, KeyType) ELSE attrs

\* kwargs[attr] = values[i] for i < len(values)
Kwargs(key_attrs, values) ==
    [ a \in { key_attrs[i] : i \in { j \in 1..Len(key_attrs) : j <= Len(values) } } |->
        values[CHOOSE i \in 1..Len(values) : i <= Len(key_attrs) /\ key_attrs[i] = a] ]

Fallback(values) == IF Len(values) = 1 THEN Scalar(values[1]) ELSE Tup(values)

\* Variant: a failure of the constructor is not caught.
ReconstructKey_NoFallback(values) ==
    IF KeyType \in Primitives THEN Scalar(values[1])
    ELSE IF KeyType = "tuple" THEN Tup(values)
    ELSE IF IsClass(KeyType)
    THEN IF CanConstruct(KeyType, Kwargs(KeyResolved.all, values))
         THEN Obj(KeyType, Kwargs(KeyResolved.all, values))
         ELSE [kind |-> "raised"]
    ELSE Fallback(values)

ReconstructKey(values) ==
    IF KeyType \in Primitives THEN Scalar(values[1])
    ELSE IF KeyType = "tuple" THEN Tup(values)
    ELSE IF IsClass(KeyType) /\ CanConstruct(KeyType, Kwargs(KeyResolved.all, values))
    THEN Obj(KeyType, Kwargs(KeyResolved.all, values))
    ELSE Fallback(values)

\* data_for_init: data, with the CopyOfKey field added as None
DataForInit(data, copy_fields) ==
    [ a \in DOMAIN data \cup copy_fields |-> IF a \in DOMAIN data THEN data[a] ELSE NoneVal ]

\* object.__setattr__(obj, copy_of_key_field, key)
PopulateCopyOfKeyField(obj, key, copy_fields) ==
    [obj EXCEPT !.f = [ a \in DOMAIN obj.f |-> IF a \in copy_fields THEN key ELSE obj.f[a] ]]

\* data_type(**data_for_init), or data itself when that fails; the
\* CopyOfKey field is set when a key is passed and an object was built
Constructed(data, data_for_init, key, copy_fields) ==
    IF DataType # "" /\ CanConstruct(DataType, data_for_init)
    THEN IF key # NoneVal
         THEN PopulateCopyOfKeyField(Obj(DataType, data_for_init), key, copy_fields)
         ELSE Obj(DataType, data_for_init)
    ELSE Dict(data)

FromDataDict(data, key) ==
    Constructed(data, DataForInit(data, CopyOfKeyFields(DataType)), key,
                CopyOfKeyFields(DataType))

ToDataDict(obj) == DefaultToDict(obj)

(***************************************************************************)
(* Python's comparison of two tuples: the first position where the         *)
(* components differ decides, and ordering None against a number raises    *)
(* TypeError ("err").                                                      *)
(***************************************************************************)
CmpTuple(s, t) ==
    LET n == IF Len(s) < Len(t) THEN Len(s) ELSE Len(t)
        diff == { i \in 1..n : s[i] # t[i] }
    IN IF diff = {}
       THEN IF Len(s) < Len(t) THEN "lt" ELSE IF Len(s) = Len(t) THEN "eq" ELSE "gt"
       ELSE LET i == CHOOSE j \in diff : \A k \in diff : j <= k
            IN IF s[i] = PyNone \/ t[i] = PyNone THEN "err"
               ELSE IF s[i] < t[i] THEN "lt" ELSE "gt"

\* s <= k <= e, evaluated left to right
Between(s, k, e) ==
    LET c1 == CmpTuple(s, k)
    IN IF c1 = "err" THEN "err"
       ELSE IF c1 = "gt" THEN "out"
       ELSE LET c2 == CmpTuple(k, e)
            IN IF c2 = "err" THEN "err" ELSE IF c2 = "gt" THEN "out" ELSE "in"

\* sorted(keys): raises when two of the keys cannot be ordered
SortRaises(keys) == \E a \in keys, b \in keys : CmpTuple(a, b) = "err"

RECURSIVE Sorted(_)
Sorted(keys) ==
    IF keys = {} THEN << >>
    ELSE LET m == CHOOSE a \in keys : \A b \in keys : CmpTuple(a, b) \in {"lt", "eq"}
         IN << m >> \o Sorted(keys \ {m})

Reverse(s) == [ i \in 1..Len(s) |-> s[Len(s) + 1 - i] ]

RECURSIVE SelectSeq2(_, _)
SelectSeq2(s, keep) ==
    IF s = << >> THEN << >>
    ELSE IF Head(s) \in keep THEN << Head(s) >> \o SelectSeq2(Tail(s), keep)
    ELSE SelectSeq2(Tail(s), keep)

Ok(ret) == [raised |-> FALSE, ret |-> ret]
Raised == [raised |-> TRUE, ret |-> NoneVal]

\* a generator run to exhaustion: what it yielded, and whether it ended by
\* raising instead of stopping
Run(yielded, raised) == [yielded |-> yielded, raised |-> raised]

\* items = self.get_range(...) / self.get_by_index_range(...); for item in
\* items: yield item
Drain(res) == IF res.raised THEN Run(<< >>, TRUE) ELSE Run(res.ret, FALSE)

(***************************************************************************)
(* InMemoryDocumentStore: storage maps a key tuple to a field map.         *)
(***************************************************************************)
\* m[k] = v; m.pop(k, None); the record read under k, or None
MapPut(m, k, v) == [ t \in DOMAIN m \cup {k} |-> IF t = k THEN v ELSE m[t] ]
MapPop(m, k) == [ t \in DOMAIN m \ {k} |-> m[t] ]
ReadAt(m, k, key) == IF k \in DOMAIN m THEN FromDataDict(m[k], key) ELSE NoneVal

MemPut(st, key, data) == MapPut(st, GetKeyTuple(key, KeyAttrs), ToDataDict(data))

MemGet(st, key) == ReadAt(st, GetKeyTuple(key, KeyAttrs), key)

MemBatchGet(st, keys) ==
    [ k \in { j \in keys : MemGet(st, j) # NoneVal } |-> MemGet(st, k) ]

\* (key, value) of the record stored under key tuple t
Entry(st, t, key) == [key |-> key, value |-> FromDataDict(st[t], key)]

Entries(st, hit) == [ i \in 1..Len(hit) |-> Entry(st, hit[i], ReconstructKey(hit[i])) ]

RangeBetween(st, s_tuple, e_tuple, reverse) ==
    IF SortRaises(DOMAIN st) THEN Raised
    ELSE IF \E k \in DOMAIN st : Between(s_tuple, k, e_tuple) = "err" THEN Raised
    ELSE Ok(Entries(st, SelectSeq2(IF reverse THEN Reverse(Sorted(DOMAIN st))
                                   ELSE Sorted(DOMAIN st),
                                   { k \in DOMAIN st : Between(s_tuple, k, e_tuple) = "in" })))

MemGetRange(st, start_key, end_key, reverse) ==
    RangeBetween(st, GetKeyTuple(start_key, KeyAttrs), GetKeyTuple(end_key, KeyAttrs), reverse)

MemGetRangeIterator(st, start_key, end_key, reverse) ==
    Drain(MemGetRange(st, start_key, end_key, reverse))

MatchIndex(obj_data, target_tuple, idx_attrs) ==
    [ i \in 1..Len(idx_attrs) |-> DictGet(obj_data, idx_attrs[i]) ] = target_tuple

\* the values of the hit records, as a bag
ValuesAt(m, hit) ==
    [ v \in { FromDataDict(m[t], NoneVal) : t \in hit } |->
        Cardinality({ t \in hit : FromDataDict(m[t], NoneVal) = v }) ]

MemMatching(st, idx_tuple, idx_attrs) ==
    ValuesAt(st, { t \in DOMAIN st : MatchIndex(st[t], idx_tuple, idx_attrs) })

IndexAttrs(index_key) == DiscoverAttrsFor(index_key.cls).all

MemGetByIndex(st, index_key) ==
    MemMatching(st, GetKeyTuple(index_key, IndexAttrs(index_key)), IndexAttrs(index_key))

\* the hit records grouped by their index tuple, one group per tuple of
\* order (the order of records with equal tuples is the container's)
Groups(m, hit, order, idx_attrs) ==
    [ i \in 1..Len(order) |->
        [t |-> order[i],
         vals |-> ValuesAt(m, { x \in hit : Project(m[x], idx_attrs) = order[i] })] ]

IndexTuples(m, hit, idx_attrs) == { Project(m[x], idx_attrs) : x \in hit }

\* the filter s_tuple <= obj_vals <= e_tuple over all records, then
\* all_matches.sort(key=obj_vals, reverse=...)
MemIndexBetween(st, s_tuple, e_tuple, idx_attrs, reverse) ==
    IF \E x \in DOMAIN st : Between(s_tuple, Project(st[x], idx_attrs), e_tuple) = "err"
    THEN Raised
    ELSE LET hit == { x \in DOMAIN st :
                        Between(s_tuple, Project(st[x], idx_attrs), e_tuple) = "in" }
         IN IF SortRaises(IndexTuples(st, hit, idx_attrs)) THEN Raised
            ELSE Ok(Groups(st, hit,
                           IF reverse THEN Reverse(Sorted(IndexTuples(st, hit, idx_attrs)))
                           ELSE Sorted(IndexTuples(st, hit, idx_attrs)),
                           idx_attrs))

MemGetByIndexRange(st, start_index, end_index, reverse) ==
    MemIndexBetween(st, GetKeyTuple(start_index, IndexAttrs(start_index)),
                    GetKeyTuple(end_index, IndexAttrs(start_index)),
                    IndexAttrs(start_index), reverse)

MemGetIndexRangeIterator(st, start_index, end_index, reverse) ==
    Drain(MemGetByIndexRange(st, start_index, end_index, reverse))

MemDelete(st, key) == MapPop(st, GetKeyTuple(key, KeyAttrs))

\* keys_to_delete is built before any record is deleted
DeleteBetween(st, s_tuple, e_tuple) ==
    IF \E k \in DOMAIN st : Between(s_tuple, k, e_tuple) = "err"
    THEN [raised |-> TRUE, st |-> st]
    ELSE [raised |-> FALSE,
          st |-> [ t \in { k \in DOMAIN st : Between(s_tuple, k, e_tuple) = "out" } |-> st[t] ]]

MemDeleteRange(st, start_key, end_key) ==
    DeleteBetween(st, GetKeyTuple(start_key, KeyAttrs), GetKeyTuple(end_key, KeyAttrs))

MemDropTable(st) == [ t \in {} |-> EmptyDict ]

(***************************************************************************)
(* The document database behind the two Mongo backends.  A BSON document   *)
(* is the sequence of its (name, value) pairs in field order.  Documents    *)
(* are equal when the sequences are equal; they are ordered pair by pair,  *)
(* a value's type first (null before numbers), then the value.  The ids    *)
(* and sort keys of one store all carry the same field names in the same   *)
(* order, so the names never decide.                                       *)
(***************************************************************************)
BsonDoc(names, vals) == [ i \in 1..Len(names) |-> << names[i], vals[i] >> ]
WrapV(vals) == << << "v", vals >> >>
DocValues(doc) == [ i \in 1..Len(doc) |-> doc[i][2] ]

BsonLess(x, y) ==
    IF x = PyNone THEN y # PyNone
    ELSE y # PyNone /\ x < y

BsonDocLeq(a, b) ==
    LET n == IF Len(a) < Len(b) THEN Len(a) ELSE Len(b)
        diff == { i \in 1..n : a[i][2] # b[i][2] }
    IN IF diff = {} THEN Len(a) <= Len(b)
       ELSE LET i == CHOOSE j \in diff : \A k \in diff : j <= k
            IN BsonLess(a[i][2], b[i][2])

(***************************************************************************)
(* MongoDocumentStore: one document {_id, data} per record.                *)
(***************************************************************************)
\* dict(zip(names, vals)) when the names fit, else the bare value of a
\* one-tuple, else {"v": vals}
MongoDoc(names, vals) ==
    IF names # << >> /\ Len(names) = Len(vals) THEN BsonDoc(names, vals)
    ELSE IF Len(vals) = 1 THEN << << "", vals[1] >> >>
    ELSE WrapV(vals)

KeyToMongoQuery(key) == MongoDoc(KeyAttrs, GetKeyTuple(key, KeyAttrs))

\* Variant: the fields of data are set on the document found, whose other
\* fields stay.
FlatPut_SetFields(coll, key, data) ==
    MapPut(coll, KeyToMongoQuery(key),
           IF KeyToMongoQuery(key) \in DOMAIN coll
           THEN [ a \in DOMAIN coll[KeyToMongoQuery(key)] \cup DOMAIN ToDataDict(data) |->
                    IF a \in DOMAIN ToDataDict(data) THEN ToDataDict(data)[a]
                    ELSE coll[KeyToMongoQuery(key)][a] ]
           ELSE ToDataDict(data))

\* replace_one(filter, doc, upsert=True)
FlatPut(coll, key, data) == MapPut(coll, KeyToMongoQuery(key), ToDataDict(data))

FlatGet(coll, key) == ReadAt(coll, KeyToMongoQuery(key), key)

\* the tuple a document's _id decodes to
IdValues(id) ==
    IF Len(id) = 1 /\ id[1][1] = "v" THEN id[1][2]
    ELSE IF KeyAttrs # << >>
         THEN [ i \in 1..Len(KeyAttrs) |->
                  IF \E j \in 1..Len(id) : id[j][1] = KeyAttrs[i]
                  THEN id[CHOOSE j \in 1..Len(id) : id[j][1] = KeyAttrs[i]][2]
                  ELSE PyNone ]
         ELSE DocValues(id)

\* key_map keeps, for every key tuple, the key of the set that was seen
\* last; the set's iteration order is the argument pick
FlatBatchGet(coll, keys, pick) ==
    LET ids == { KeyToMongoQuery(k) : k \in keys }
        found == ids \cap DOMAIN coll
        original(id) == pick[IdValues(id)]
    IN [ k \in { original(id) : id \in found } |->
           FromDataDict(coll[CHOOSE id \in found : original(id) = k], k) ]

\* the choices of pick: one key of the set for each key tuple
KeyMaps(keys) ==
    LET tuples == { GetKeyTuple(k, KeyAttrs) : k \in keys }
    IN { m \in [tuples -> keys] : \A t \in tuples : GetKeyTuple(m[t], KeyAttrs) = t }

IndexToMongoQuery(vals, idx_attrs) == BsonDoc(idx_attrs, vals)

\* find({"data.<attr>": val, ...}): a query for null matches a missing field
FlatFind(coll, query) ==
    ValuesAt(coll, { d \in DOMAIN coll :
                       \A i \in 1..Len(query) : DictGet(coll[d], query[i][1]) = query[i][2] })

FlatGetByIndex(coll, index_key) ==
    FlatFind(coll, IndexToMongoQuery(GetKeyTuple(index_key, IndexAttrs(index_key)),
                                     IndexAttrs(index_key)))

RECURSIVE BsonDocSorted(_)
BsonDocSorted(ids) ==
    IF ids = {} THEN << >>
    ELSE LET m == CHOOSE a \in ids : \A b \in ids : BsonDocLeq(a, b)
         IN << m >> \o BsonDocSorted(ids \ {m})

\* find({"_id": {"$gte": s_query, "$lte": e_query}}).sort("_id", sort_dir)
GetRangeCursor(coll, s_query, e_query, reverse) ==
    LET found == { x \in DOMAIN coll : BsonDocLeq(s_query, x) /\ BsonDocLeq(x, e_query) }
    IN IF reverse THEN Reverse(BsonDocSorted(found)) ELSE BsonDocSorted(found)

\* (k, value) per document of the cursor, k rebuilt from the _id
FlatEntries(coll, cursor) ==
    [ i \in 1..Len(cursor) |-> Entry(coll, cursor[i], ReconstructKey(IdValues(cursor[i]))) ]

FlatGetRange(coll, start_key, end_key, reverse) ==
    Ok(FlatEntries(coll, GetRangeCursor(coll, KeyToMongoQuery(start_key),
                                        KeyToMongoQuery(end_key), reverse)))

\* tuples in the order of a Mongo sort on their fields (null first)
BsonTupleLeq(s, t) ==
    \/ s = t
    \/ \E i \in 1..Len(s) : (\A j \in 1..(i - 1) : s[j] = t[j]) /\ BsonLess(s[i], t[i])

RECURSIVE BsonSorted(_)
BsonSorted(keys) ==
    IF keys = {} THEN << >>
    ELSE LET m == CHOOSE a \in keys : \A b \in keys : BsonTupleLeq(a, b)
         IN << m >> \o BsonSorted(keys \ {m})

\* find({}).sort([("data.<a>", dir) ...]), then the filter
\* s_vals <= obj_vals <= e_vals over every document of the cursor
FlatIndexBetween(coll, s_vals, e_vals, idx_attrs, reverse) ==
    IF \E x \in DOMAIN coll : Between(s_vals, Project(coll[x], idx_attrs), e_vals) = "err"
    THEN Raised
    ELSE LET hit == { x \in DOMAIN coll :
                        Between(s_vals, Project(coll[x], idx_attrs), e_vals) = "in" }
         IN Ok(Groups(coll, hit,
                      IF reverse THEN Reverse(BsonSorted(IndexTuples(coll, hit, idx_attrs)))
                      ELSE BsonSorted(IndexTuples(coll, hit, idx_attrs)),
                      idx_attrs))

FlatGetByIndexRange(coll, start_index, end_index, reverse) ==
    FlatIndexBetween(coll, GetKeyTuple(start_index, IndexAttrs(start_index)),
                     GetKeyTuple(end_index, IndexAttrs(start_index)),
                     IndexAttrs(start_index), reverse)

\* Variant: the cursor is always read in ascending order.
FlatGetRangeIterator_Forward(coll, start_key, end_key, reverse) ==
    Run(FlatEntries(coll, GetRangeCursor(coll, KeyToMongoQuery(start_key),
                                         KeyToMongoQuery(end_key), FALSE)), FALSE)

\* the loop of get_range with yield in place of results.append
FlatGetRangeIterator(coll, start_key, end_key, reverse) ==
    Run(FlatEntries(coll, GetRangeCursor(coll, KeyToMongoQuery(start_key),
                                         KeyToMongoQuery(end_key), reverse)), FALSE)

\* the documents of the sorted cursor are compared one by one: those in
\* range are yielded until a comparison raises; order lists the index
\* tuples in cursor order
FlatIndexWalk(coll, s_vals, e_vals, idx_attrs, order) ==
    LET bad  == { i \in 1..Len(order) : Between(s_vals, order[i], e_vals) = "err" }
        upto == IF bad = {} THEN Len(order)
                ELSE (CHOOSE i \in bad : \A j \in bad : i <= j) - 1
        seen == { order[i] : i \in 1..upto }
    IN Run(Groups(coll, { x \in DOMAIN coll : Project(coll[x], idx_attrs) \in seen },
                  SelectSeq2(SubSeq(order, 1, upto),
                             { t \in seen : Between(s_vals, t, e_vals) = "in" }),
                  idx_attrs),
           bad # {})

FlatGetIndexRangeIterator(coll, start_index, end_index, reverse) ==
    FlatIndexWalk(coll, GetKeyTuple(start_index, IndexAttrs(start_index)),
                  GetKeyTuple(end_index, IndexAttrs(start_index)),
                  IndexAttrs(start_index),
                  IF reverse
                  THEN Reverse(BsonSorted(IndexTuples(coll, DOMAIN coll, IndexAttrs(start_index))))
                  ELSE BsonSorted(IndexTuples(coll, DOMAIN coll, IndexAttrs(start_index))))

FlatDelete(coll, key) == MapPop(coll, KeyToMongoQuery(key))

\* delete_many({"_id": {"$gte": s_query, "$lte": e_query}})
DeleteMany(coll, s_query, e_query) ==
    [ d \in { x \in DOMAIN coll : ~(BsonDocLeq(s_query, x) /\ BsonDocLeq(x, e_query)) } |->
        coll[d] ]

FlatDeleteRange(coll, start_key, end_key) ==
    DeleteMany(coll, KeyToMongoQuery(start_key), KeyToMongoQuery(end_key))

FlatDropTable(coll) == [ d \in {} |-> EmptyDict ]

(***************************************************************************)
(* MongoEmbeddedDocumentStore: one document per partition key, holding the *)
(* list items of {sk, d}.                                                  *)
(***************************************************************************)
KeyToMongoPkQuery(key) == MongoDoc(PartitionAttrs, GetPartitionKeyTuple(key))

GetSortKeyValue(key) == MongoDoc(SortAttrs, GetSortKeyTuple(key))

Item(sk, d) == [sk |-> sk, d |-> d]

\* the positions of the items of document pk whose sk equals sk_val
MatchingItems(coll, pk, sk_val) ==
    IF pk \in DOMAIN coll
    THEN { i \in 1..Len(coll[pk]) : coll[pk][i].sk = sk_val }
    ELSE {}

FirstOf(S) == CHOOSE i \in S : \A j \in S : i <= j

\* Variant: the matched item's fields are set one by one ("items.$.d.<field>"),
\* which keeps the fields the new value does not have.
EmbUpdateMatched_Merge(coll, pk, sk_val, data_dict) ==
    LET hit == MatchingItems(coll, pk, sk_val)
        old == coll[pk][FirstOf(hit)].d
        merged == [ a \in DOMAIN old \cup DOMAIN data_dict |->
                      IF a \in DOMAIN data_dict THEN data_dict[a] ELSE old[a] ]
    IN IF hit = {} THEN [matched_count |-> 0, coll |-> coll]
       ELSE [matched_count |-> 1,
             coll |-> [coll EXCEPT ![pk][FirstOf(hit)].d = merged]]

\* update_one({_id, "items.sk": sk}, {"$set": {"items.$.d": data}})
EmbUpdateMatched(coll, pk, sk_val, data_dict) ==
    LET hit == MatchingItems(coll, pk, sk_val)
    IN IF hit = {} THEN [matched_count |-> 0, coll |-> coll]
       ELSE [matched_count |-> 1,
             coll |-> [coll EXCEPT ![pk][FirstOf(hit)].d = data_dict]]

\* Variant: the item is appended only when the list holds no item with its
\* sort key.
EmbPush_IfAbsent(coll, pk, item) ==
    [ p \in DOMAIN coll \cup {pk} |->
        IF p = pk
        THEN IF pk \in DOMAIN coll
             THEN IF \E i \in 1..Len(coll[pk]) : coll[pk][i].sk = item.sk
                  THEN coll[pk] ELSE Append(coll[pk], item)
             ELSE << item >>
        ELSE coll[p] ]

\* Variant: the item is put in front of the list.
EmbPush_Prepend(coll, pk, item) ==
    [ p \in DOMAIN coll \cup {pk} |->
        IF p = pk
        THEN IF pk \in DOMAIN coll THEN << item >> \o coll[pk] ELSE << item >>
        ELSE coll[p] ]

\* update_one({_id}, {"$push": {"items": item}}, upsert=True)
EmbPush(coll, pk, item) ==
    [ p \in DOMAIN coll \cup {pk} |->
        IF p = pk
        THEN IF pk \in DOMAIN coll THEN Append(coll[pk], item) ELSE << item >>
        ELSE coll[p] ]

\* Variant: the item is pushed without first trying to update a matching one.
EmbUpsertItem_AlwaysPush(coll, pk_query, sk_val, data_dict) ==
    EmbPush(coll, pk_query, Item(sk_val, data_dict))

\* the update of the matching item and, when none matched, the push
EmbUpsertItem(coll, pk_query, sk_val, data_dict) ==
    LET result == EmbUpdateMatched(coll, pk_query, sk_val, data_dict)
    IN IF result.matched_count = 0
       THEN EmbPush(coll, pk_query, Item(sk_val, data_dict))
       ELSE result.coll

EmbPut(coll, key, data) ==
    EmbUpsertItem(coll, KeyToMongoPkQuery(key), GetSortKeyValue(key), ToDataDict(data))

\* find_one({_id, "items.sk": sk}, {"items.$": 1})
EmbFindOne(coll, pk_query, sk_val, key) ==
    IF MatchingItems(coll, pk_query, sk_val) # {}
    THEN FromDataDict(coll[pk_query][FirstOf(MatchingItems(coll, pk_query, sk_val))].d, key)
    ELSE NoneVal

EmbGet(coll, key) == EmbFindOne(coll, KeyToMongoPkQuery(key), GetSortKeyValue(key), key)

\* bool(val) of what get returns: None and an empty dict are falsy
PyBool(val) ==
    /\ val.kind # "none"
    /\ val.kind = "dict" => val.f # EmptyDict

\* the entries of results whose value is truthy
Truthies(results) ==
    [ k \in { j \in DOMAIN results : PyBool(results[j]) } |-> results[k] ]

EmbBatchGet(coll, keys) == Truthies([ k \in keys |-> EmbGet(coll, k) ])

\* Variant: every item of a narrowed document is returned, without the
\* per-item filter.
EmbFind_NoItemFilter(coll, vals, idx_attrs) ==
    LET docs == { p \in DOMAIN coll :
                    \A i \in 1..Len(idx_attrs) :
                       \E n \in 1..Len(coll[p]) : DictGet(coll[p][n].d, idx_attrs[i]) = vals[i] }
        hit == UNION { { << p, n >> : n \in 1..Len(coll[p]) } : p \in docs }
    IN [ v \in { FromDataDict(coll[pn[1]][pn[2]].d, NoneVal) : pn \in hit } |->
           Cardinality({ pn \in hit : FromDataDict(coll[pn[1]][pn[2]].d, NoneVal) = v }) ]

\* find({"items.d.<attr>": val, ...}) selects the documents that have, for
\* every attribute, an item with that value (null matching a missing field);
\* their items are then filtered one by one
EmbFind(coll, vals, idx_attrs) ==
    LET docs == { p \in DOMAIN coll :
                    \A i \in 1..Len(idx_attrs) :
                       \E n \in 1..Len(coll[p]) : DictGet(coll[p][n].d, idx_attrs[i]) = vals[i] }
        hit == { pn \in UNION { { << p, n >> : n \in 1..Len(coll[p]) } : p \in docs } :
                   \A i \in 1..Len(idx_attrs) :
                      DictGet(coll[pn[1]][pn[2]].d, idx_attrs[i]) = vals[i] }
    IN [ v \in { FromDataDict(coll[pn[1]][pn[2]].d, NoneVal) : pn \in hit } |->
           Cardinality({ pn \in hit : FromDataDict(coll[pn[1]][pn[2]].d, NoneVal) = v }) ]

EmbGetByIndex(coll, index_key) ==
    EmbFind(coll, GetKeyTuple(index_key, IndexAttrs(index_key)), IndexAttrs(index_key))

\* _get_sort_key_tuple(item["sk"]): the stored sort-key map read through
\* the sort attributes
SkTuple(sk) ==
    [ i \in 1..Len(SortAttrs) |->
        IF \E j \in 1..Len(sk) : sk[j][1] = SortAttrs[i]
        THEN sk[CHOOSE j \in 1..Len(sk) : sk[j][1] = SortAttrs[i]][2]
        ELSE PyNone ]

\* the one-component tuple (v,) held as a key component: a value of its
\* own, different from every scalar and from None, and truthy
TupleOf(t) == 2000 + t[1]

\* sk is a tuple here, neither a dict nor a list, so sk_tuple = (sk,) and
\* the key is rebuilt from pk_tuple + (sk,)
EmbRangeKey(pk_tuple, sk) == ReconstructKey(pk_tuple \o << TupleOf(sk) >>)

\* the positions of the matching items whose comparison did not raise
EmbRangeHits(items, start_sk, end_sk) ==
    { n \in 1..Len(items) : Between(start_sk, SkTuple(items[n].sk), end_sk) = "in" }

\* items.sort(key=sort key tuple): a stable sort, items of one sort key
\* stay in list order
RECURSIVE EmbSortItems(_, _, _)
EmbSortItems(items, hits, order) ==
    IF order = << >> THEN << >>
    ELSE SelectSeq2([ i \in 1..Len(items) |-> i ],
                    { n \in hits : SkTuple(items[n].sk) = Head(order) })
         \o EmbSortItems(items, hits, Tail(order))

EmbRangeOf(items, pk_tuple, start_sk, end_sk, reverse) ==
    LET hits == EmbRangeHits(items, start_sk, end_sk)
        sks == { SkTuple(items[n].sk) : n \in hits }
        pos == IF SortRaises(sks) THEN SelectSeq2([ i \in 1..Len(items) |-> i ], hits)
               ELSE EmbSortItems(items, hits,
                                 IF reverse THEN Reverse(Sorted(sks)) ELSE Sorted(sks))
    IN [ i \in 1..Len(pos) |->
           [key |-> EmbRangeKey(pk_tuple, SkTuple(items[pos[i]].sk)),
            value |-> FromDataDict(items[pos[i]].d,
                                   EmbRangeKey(pk_tuple, SkTuple(items[pos[i]].sk)))] ]

\* Variant: the document scanned is the one of end_key's partition.
EmbGetRange_EndPartition(coll, start_key, end_key, reverse) ==
    IF KeyToMongoPkQuery(end_key) \notin DOMAIN coll THEN Ok(<< >>)
    ELSE Ok(EmbRangeOf(coll[KeyToMongoPkQuery(end_key)],
                       GetPartitionKeyTuple(start_key),
                       GetSortKeyTuple(start_key), GetSortKeyTuple(end_key), reverse))

\* find_one(pk_query of start_key), then the scan of its items
EmbGetRange(coll, start_key, end_key, reverse) ==
    IF KeyToMongoPkQuery(start_key) \notin DOMAIN coll THEN Ok(<< >>)
    ELSE Ok(EmbRangeOf(coll[KeyToMongoPkQuery(start_key)],
                       GetPartitionKeyTuple(start_key),
                       GetSortKeyTuple(start_key), GetSortKeyTuple(end_key), reverse))

\* $gte / $lte of Mongo: values are compared inside their type only, and
\* null matches null and a missing field
BsonGte(x, y) == IF x = PyNone \/ y = PyNone THEN x = y ELSE x >= y
BsonLte(x, y) == IF x = PyNone \/ y = PyNone THEN x = y ELSE x <= y

\* find({"items.d.<first_attr>": {"$gte": s, "$lte": e}}): the documents
\* with an item that meets the lower and an item that meets the upper bound
EmbNarrowed(coll, s_vals, e_vals, idx_attrs) ==
    IF idx_attrs = << >> THEN DOMAIN coll
    ELSE { p \in DOMAIN coll :
             /\ \E n \in 1..Len(coll[p]) :
                   BsonGte(DictGet(coll[p][n].d, idx_attrs[1]), s_vals[1])
             /\ \E n \in 1..Len(coll[p]) :
                   BsonLte(DictGet(coll[p][n].d, idx_attrs[1]), e_vals[1]) }

\* the items of the narrowed documents as a map from (document, position)
\* to the item's field map
ItemsOfDocs(coll, docs) ==
    [ pn \in UNION { { << p, n >> : n \in 1..Len(coll[p]) } : p \in docs } |->
        coll[pn[1]][pn[2]].d ]

EmbGetByIndexRange(coll, start_index, end_index, reverse) ==
    MemIndexBetween(ItemsOfDocs(coll, EmbNarrowed(coll,
                                    GetKeyTuple(start_index, IndexAttrs(start_index)),
                                    GetKeyTuple(end_index, IndexAttrs(start_index)),
                                    IndexAttrs(start_index))),
                    GetKeyTuple(start_index, IndexAttrs(start_index)),
                    GetKeyTuple(end_index, IndexAttrs(start_index)),
                    IndexAttrs(start_index), reverse)

RECURSIVE Pull(_, _)
EmbGetRangeIterator(coll, start_key, end_key, reverse) ==
    Drain(EmbGetRange(coll, start_key, end_key, reverse))

EmbGetIndexRangeIterator(coll, start_index, end_index, reverse) ==
    Drain(EmbGetByIndexRange(coll, start_index, end_index, reverse))

Pull(items, drop) ==
    IF items = << >> THEN << >>
    ELSE IF drop[Head(items).sk] THEN Pull(Tail(items), drop)
    ELSE << Head(items) >> \o Pull(Tail(items), drop)

\* update_one({_id}, {"$pull": {"items": {"sk": sk}}})
EmbPullEqual(coll, pk_query, sk_val) ==
    [ p \in DOMAIN coll |->
        IF p = pk_query
        THEN Pull(coll[p], [ sk \in { coll[p][i].sk : i \in 1..Len(coll[p]) } |-> sk = sk_val ])
        ELSE coll[p] ]

EmbDelete(coll, key) == EmbPullEqual(coll, KeyToMongoPkQuery(key), GetSortKeyValue(key))

\* update_one({_id}, {"$pull": {"items": {"sk": {"$gte": s, "$lte": e}}}})
EmbPullBetween(coll, pk_query, start_sk, end_sk) ==
    [ p \in DOMAIN coll |->
        IF p = pk_query
        THEN Pull(coll[p], [ sk \in { coll[p][i].sk : i \in 1..Len(coll[p]) } |->
                               BsonDocLeq(start_sk, sk) /\ BsonDocLeq(sk, end_sk) ])
        ELSE coll[p] ]

EmbDeleteRange(coll, start_key, end_key) ==
    EmbPullBetween(coll, KeyToMongoPkQuery(start_key),
                   GetSortKeyValue(start_key), GetSortKeyValue(end_key))

EmbDropTable(coll) == [ p \in {} |-> << >> ]

(***************************************************************************)
(* The three stores under the same sequence of calls.  The writing calls   *)
(* are the actions.  The reading calls (get, batch_get, get_range,         *)
(* get_by_index) leave the stores as they are, so what they return in a    *)
(* state is given by the operators above applied to that state.  last is   *)
(* the call made last (for put with its arguments, the field map it found  *)
(* under the key, and whether it repeats the call before it); nops counts  *)
(* the records written and the deleting calls made so far.                 *)
(***************************************************************************)
\* the state of the web server: its session store, clock and Mongo stores
web == << sessions, now, uploads >>

vars == << storage, flat, emb, attrs, data_type, key_type, last, nops, calls, tables, web >>

\* the stores of the two Mongo backends are collections of one database
MongoStores == {"flat", "emb"}

\* a server that holds no session and no upload, at time 0
NoUploads ==
    [issued |-> {}, libraries |-> {},
     user_uploads |-> [ k \in {} |-> EmptyDict ], user_books |-> [ k \in {} |-> EmptyDict ]]

NoWeb ==
    /\ sessions = [ i \in {} |-> EmptyDict ]
    /\ now = 0
    /\ uploads = NoUploads

Callers == 1..2

Idle == [pc |-> "idle", store |-> "none"]

Keys == { Obj("MyKey", [user_id |-> p, note_id |-> s]) : p \in PartVals, s \in SortVals }
Values == { Obj("MyNote", [title |-> t, category |-> c]) : t \in FieldVals, c \in FieldVals }
Indexes == { Obj("CategoryIndex", [category |-> c]) : c \in FieldVals }

\* the dicts batch_put is called with, in insertion order
Batches(n) ==
    { b \in [1..n -> Keys \X Values] :
        \A i \in 1..n, j \in 1..n : i # j => b[i][1] # b[j][1] }

KeySets == { S \in SUBSET Keys : S # {} /\ Cardinality(S) <= MaxBatch }

Init ==
    /\ storage = [ t \in {} |-> EmptyDict ]
    /\ flat = [ d \in {} |-> EmptyDict ]
    /\ emb = [ p \in {} |-> << >> ]
    /\ tables = {}
    /\ key_type = "MyKey"
    /\ attrs = DiscoverAttrsFor(key_type)
    /\ data_type = "MyNote"
    /\ last = [op |-> "init"]
    /\ nops = 0
    /\ calls = [ c \in Callers |-> Idle ]
    /\ NoWeb

Put(key, data) ==
    /\ nops < MaxOps
    /\ storage' = MemPut(storage, key, data)
    /\ flat' = FlatPut(flat, key, data)
    /\ emb' = EmbPut(emb, key, data)
    /\ last' = [op |-> "put", key |-> key, data |-> data,
                prev |-> MemGet(storage, key),
                again |-> (last.op = "put" /\ last.key = key /\ last.data = data)]
    /\ nops' = nops + 1
    /\ tables' = tables \cup MongoStores
    /\ UNCHANGED << attrs, data_type, key_type, calls, web >>

RECURSIVE MemBatchPut(_, _)
MemBatchPut(st, items) ==
    IF items = << >> THEN st
    ELSE MemBatchPut(MemPut(st, Head(items)[1], Head(items)[2]), Tail(items))

\* bulk_write of one ReplaceOne per item, in order
RECURSIVE FlatBatchPut(_, _)
FlatBatchPut(coll, items) ==
    IF items = << >> THEN coll
    ELSE FlatBatchPut(FlatPut(coll, Head(items)[1], Head(items)[2]), Tail(items))

RECURSIVE EmbBatchPut(_, _)
EmbBatchPut(coll, items) ==
    IF items = << >> THEN coll
    ELSE EmbBatchPut(EmbPut(coll, Head(items)[1], Head(items)[2]), Tail(items))

BatchPut(items) ==
    /\ nops + Len(items) <= MaxOps
    /\ storage' = MemBatchPut(storage, items)
    /\ flat' = FlatBatchPut(flat, items)
    /\ emb' = EmbBatchPut(emb, items)
    /\ last' = [op |-> "batch_put"]
    /\ nops' = nops + Len(items)
    /\ tables' = tables \cup MongoStores
    /\ UNCHANGED << attrs, data_type, key_type, calls, web >>

Delete(key) ==
    /\ nops < MaxOps
    /\ storage' = MemDelete(storage, key)
    /\ flat' = FlatDelete(flat, key)
    /\ emb' = EmbDelete(emb, key)
    /\ last' = [op |-> "delete"]
    /\ nops' = nops + 1
    /\ UNCHANGED << attrs, data_type, key_type, calls, tables, web >>

DeleteRange(start_key, end_key) ==
    /\ nops < MaxOps
    /\ storage' = MemDeleteRange(storage, start_key, end_key).st
    /\ flat' = FlatDeleteRange(flat, start_key, end_key)
    /\ emb' = EmbDeleteRange(emb, start_key, end_key)
    /\ last' = [op |-> "delete_range",
                mem_raised |-> MemDeleteRange(storage, start_key, end_key).raised]
    /\ nops' = nops + 1
    /\ UNCHANGED << attrs, data_type, key_type, calls, tables, web >>

DropTable ==
    /\ nops < MaxOps
    /\ storage' = MemDropTable(storage)
    /\ flat' = FlatDropTable(flat)
    /\ emb' = EmbDropTable(emb)
    /\ last' = [op |-> "drop_table"]
    /\ nops' = nops + 1
    /\ tables' = tables \ MongoStores
    /\ UNCHANGED << attrs, data_type, key_type, calls, web >>

\* db.create_collection(name): CollectionInvalid when the collection exists
CreateCollection(names, name) ==
    IF name \in names THEN Raised ELSE Ok(names \cup {name})

\* Variant: the collection is created without looking whether it exists.
MongoCreateTable_Unchecked(names, name) == CreateCollection(names, name)

\* if self.collection_name not in self.db.list_collection_names(): create it
MongoCreateTable(names, name) ==
    IF name \notin names THEN CreateCollection(names, name) ELSE Ok(names)

\* create_table of the three stores (a no-op on the In-Memory store); the
\* records of existing collections are not touched
CreateTables(flat_made, emb_made) ==
    /\ tables' = IF flat_made.raised \/ emb_made.raised THEN tables
                 ELSE flat_made.ret \cup emb_made.ret
    /\ last' = [op |-> "create_table",
                raised |-> flat_made.raised \/ emb_made.raised,
                existed |-> tables,
                again |-> last.op = "create_table"]

CreateTable ==
    /\ nops < MaxOps
    /\ CreateTables(MongoCreateTable(tables, "flat"), MongoCreateTable(tables, "emb"))
    /\ nops' = nops + 1
    /\ UNCHANGED << storage, flat, emb, attrs, data_type, key_type, calls, web >>

Next ==
    \/ \E k \in Keys, v \in Values : Put(k, v)
    \/ \E n \in 1..MaxBatch : \E b \in Batches(n) : BatchPut(b)
    \/ \E k \in Keys : Delete(k)
    \/ \E a \in Keys, b \in Keys : DeleteRange(a, b)
    \/ DropTable

Spec == Init /\ [][Next]_vars

(***************************************************************************)
(* Stores that already hold the records of one batch_put and serve one     *)
(* more removing call.                                                     *)
(***************************************************************************)
LoadedInit ==
    /\ key_type = "MyKey"
    /\ attrs = DiscoverAttrsFor(key_type)
    /\ data_type = "MyNote"
    /\ \E n \in 0..MaxBatch : \E b \in Batches(n) :
          /\ storage = MemBatchPut([ t \in {} |-> EmptyDict ], b)
          /\ flat = FlatBatchPut([ d \in {} |-> EmptyDict ], b)
          /\ emb = EmbBatchPut([ p \in {} |-> << >> ], b)
          /\ tables = IF n = 0 THEN {} ELSE MongoStores
    /\ last = [op |-> "batch_put"]
    /\ nops = MaxOps - 1
    /\ calls = [ c \in Callers |-> Idle ]
    /\ NoWeb

LoadedNext ==
    \/ \E k \in Keys : Delete(k)
    \/ \E a \in Keys, b \in Keys : DeleteRange(a, b)
    \/ DropTable

LoadedSpec == LoadedInit /\ [][LoadedNext]_vars

(***************************************************************************)
(* The key schema of one store instance.  The instance is constructed with *)
(* a key type, or none, and without attribute lists; it resolves the lists *)
(* on the class of a key the first time it needs them.  The calls are the  *)
(* helpers every operation goes through, with keys of any type.            *)
(***************************************************************************)
KeyTypes == {"", "MyKey", "OrderedKey", "MyNote", "Unresolved", "str", "tuple"}

KeyObjects ==
    { Obj("MyKey", [user_id |-> 1, note_id |-> s]) : s \in 1..2 }
    \cup { Obj("OrderedKey", [suffix |-> 1, prefix |-> 2, partition |-> 1]),
           Obj("CategoryIndex", [category |-> 1]),
           Obj("MyNote", [title |-> 1, category |-> 1]),
           Obj("Unresolved", [ref |-> 1]),
           Scalar(1), Tup(<< 1 >>), Tup(<< 1, 2 >>) }

KeyTuples == UNION { [1..n -> 1..2] : n \in 0..MaxKeyLen }

KeyInit ==
    /\ storage = [ t \in {} |-> EmptyDict ]
    /\ flat = [ d \in {} |-> EmptyDict ]
    /\ emb = [ p \in {} |-> << >> ]
    /\ tables = {}
    /\ key_type \in KeyTypes
    /\ attrs = Discovered(<< >>, << >>)
    /\ data_type = "MyNote"
    /\ last = [op |-> "init"]
    /\ nops = 0
    /\ calls = [ c \in Callers |-> Idle ]
    /\ NoWeb

KeyCall(op, arg, ret, resolved) ==
    /\ nops < MaxOps
    /\ attrs' = resolved
    /\ last' = [op |-> op, arg |-> arg, ret |-> ret, before |-> attrs]
    /\ nops' = nops + 1
    /\ UNCHANGED << storage, flat, emb, data_type, key_type, calls, tables, web >>

\* a key tuple of a primitive key type has one component
ReconstructKeyCall(values) ==
    /\ KeyType \in Primitives => Len(values) = 1
    /\ KeyCall("reconstruct_key", values, ReconstructKey(values), KeyResolved)

GetKeyTupleCall(obj) ==
    KeyCall("get_key_tuple", obj, GetKeyTuple(obj, KeyAttrs), attrs)

GetPartitionKeyTupleCall(obj) ==
    KeyCall("get_partition_key_tuple", obj, GetPartitionKeyTuple(obj), PartitionResolved(obj))

GetSortKeyTupleCall(obj) ==
    KeyCall("get_sort_key_tuple", obj, GetSortKeyTuple(obj), SortResolved(obj))

KeyNext ==
    \/ \E values \in KeyTuples : ReconstructKeyCall(values)
    \/ \E obj \in KeyObjects : GetKeyTupleCall(obj)
    \/ \E obj \in KeyObjects : GetPartitionKeyTupleCall(obj)
    \/ \E obj \in KeyObjects : GetSortKeyTupleCall(obj)

KeySpec == KeyInit /\ [][KeyNext]_vars

(***************************************************************************)
(* Two callers on one store, each making one call, taken step by step:     *)
(* every request to the database and every statement that reads or writes  *)
(* the In-Memory map is a step of its own, and the steps of the two        *)
(* callers interleave freely.  The stores start with some records put in   *)
(* key order.  calls[c].pc is the caller's position: "idle" before the     *)
(* call, "done" after it returned, "failed" after it raised.               *)
(***************************************************************************)
ConcKeys == { Obj("MyKey", [user_id |-> 1, note_id |-> s]) : s \in 1..MaxConcSort }

\* a note with a title only and a note with a category only
ConcValues == { v \in Values : Truthy(v.f.title) # Truthy(v.f.category) }

\* the records a store holds at the start, in the order they were put
PreLoads(n) ==
    { b \in [1..n -> ConcKeys \X ConcValues] :
        \A i \in 1..n, j \in 1..n : i < j => b[i][1].f.note_id < b[j][1].f.note_id }

ConcInit ==
    /\ key_type = "MyKey"
    /\ attrs = DiscoverAttrsFor(key_type)
    /\ data_type = "MyNote"
    /\ \E n \in 0..MaxConcSort : \E b \in PreLoads(n) :
          /\ storage = MemBatchPut([ t \in {} |-> EmptyDict ], b)
          /\ flat = FlatBatchPut([ d \in {} |-> EmptyDict ], b)
          /\ emb = EmbBatchPut([ p \in {} |-> << >> ], b)
          /\ tables = IF n = 0 THEN {} ELSE MongoStores
          /\ last = [op |-> "batch_put", items |-> b]
    /\ nops = 0
    /\ calls = [ c \in Callers |-> Idle ]
    /\ NoWeb

\* caller c may start a call on store: the other caller uses the same one
MayCall(c, store) ==
    /\ calls[c].pc = "idle"
    /\ \A d \in Callers \ {c} : calls[d].store \in {"none", store}

At(c, store, op, pc) ==
    /\ calls[c].pc = pc
    /\ calls[c].store = store
    /\ calls[c].op = op

\* MongoEmbeddedDocumentStore.put, first request: update_one(query, $set)
EmbPutUpdated(c, key, data, result) ==
    /\ emb' = result.coll
    /\ calls' = [calls EXCEPT ![c] =
                    [store |-> "emb", op |-> "put", key |-> key, data |-> data,
                     matched_count |-> result.matched_count,
                     pc |-> IF result.matched_count = 0 THEN "push" ELSE "done"]]

EmbPutUpdate(c, key, data) ==
    /\ MayCall(c, "emb")
    /\ EmbPutUpdated(c, key, data,
                     EmbUpdateMatched(emb, KeyToMongoPkQuery(key), GetSortKeyValue(key),
                                      ToDataDict(data)))
    /\ UNCHANGED << storage, flat, attrs, data_type, key_type, last, nops, tables, web >>

\* second request, made when nothing matched: update_one(pk_query, $push,
\* upsert=True)
EmbPutPush(c) ==
    /\ At(c, "emb", "put", "push")
    /\ emb' = EmbPush(emb, KeyToMongoPkQuery(calls[c].key),
                      Item(GetSortKeyValue(calls[c].key), ToDataDict(calls[c].data)))
    /\ calls' = [calls EXCEPT ![c].pc = "done"]
    /\ tables' = tables \cup {"emb"}
    /\ UNCHANGED << storage, flat, attrs, data_type, key_type, last, nops, web >>

\* MongoDocumentStore.put: the one request replace_one(filter, doc,
\* upsert=True), which the database applies to the document as a whole
FlatPutCall(c, key, data) ==
    /\ MayCall(c, "flat")
    /\ flat' = FlatPut(flat, key, data)
    /\ calls' = [calls EXCEPT ![c] =
                    [store |-> "flat", op |-> "put", key |-> key, data |-> data,
                     pc |-> "done"]]
    /\ tables' = tables \cup {"flat"}
    /\ UNCHANGED << storage, emb, attrs, data_type, key_type, last, nops, web >>

\* InMemoryDocumentStore.put: the one store into the dict
MemPutCall(c, key, data) ==
    /\ MayCall(c, "mem")
    /\ storage' = MemPut(storage, key, data)
    /\ calls' = [calls EXCEPT ![c] =
                    [store |-> "mem", op |-> "put", key |-> key, data |-> data,
                     pc |-> "done"]]
    /\ UNCHANGED << flat, emb, attrs, data_type, key_type, last, nops, tables, web >>

\* InMemoryDocumentStore.delete: `if key_tuple in self._storage`
MemDeleteCheck(c, key) ==
    /\ MayCall(c, "mem")
    /\ calls' = [calls EXCEPT ![c] =
                    [store |-> "mem", op |-> "delete", key |-> key,
                     pc |-> IF GetKeyTuple(key, KeyAttrs) \in DOMAIN storage
                            THEN "del" ELSE "done"]]
    /\ UNCHANGED << storage, flat, emb, attrs, data_type, key_type, last, nops, tables, web >>

\* `del self._storage[key_tuple]`: KeyError when the key is gone
MemDeleteDel(c) ==
    /\ At(c, "mem", "delete", "del")
    /\ IF GetKeyTuple(calls[c].key, KeyAttrs) \in DOMAIN storage
       THEN /\ storage' = MemDelete(storage, calls[c].key)
            /\ calls' = [calls EXCEPT ![c].pc = "done"]
       ELSE /\ calls' = [calls EXCEPT ![c].pc = "failed"]
            /\ UNCHANGED storage
    /\ UNCHANGED << flat, emb, attrs, data_type, key_type, last, nops, tables, web >>

\* an iterator over the dict: used is the size the dict had when the
\* iterator was made, seen the number of entries it has yielded
DictIter(st) == [used |-> Cardinality(DOMAIN st), seen |-> 0]

\* next() on the iterator: RuntimeError ("dictionary changed size during
\* iteration") when the size differs from used, else the next entry in
\* insertion order (the records were put in key order), else the end
IterNext(st, it) ==
    IF Cardinality(DOMAIN st) # it.used THEN [kind |-> "error"]
    ELSE IF it.seen = it.used THEN [kind |-> "stop"]
    ELSE [kind |-> "entry", k |-> Sorted(DOMAIN st)[it.seen + 1]]

\* InMemoryDocumentStore.delete_range: the comprehension starts to iterate
\* over self._storage.keys()
MemDeleteRangeIter(c, start_key, end_key) ==
    /\ MayCall(c, "mem")
    /\ calls' = [calls EXCEPT ![c] =
                    [store |-> "mem", op |-> "delete_range",
                     s_tuple |-> GetKeyTuple(start_key, KeyAttrs),
                     e_tuple |-> GetKeyTuple(end_key, KeyAttrs),
                     it |-> DictIter(storage), keys_to_delete |-> << >>,
                     pc |-> "scan"]]
    /\ UNCHANGED << storage, flat, emb, attrs, data_type, key_type, last, nops, tables, web >>

\* one round of the comprehension: next key, `s_tuple <= k <= e_tuple`
MemDeleteRangeScanned(c, nxt) ==
    calls' = [calls EXCEPT ![c] =
                CASE nxt.kind = "error" -> [@ EXCEPT !.pc = "failed"]
                  [] nxt.kind = "stop" ->
                       [@ EXCEPT !.pc = IF calls[c].keys_to_delete = << >> THEN "done" ELSE "del"]
                  [] OTHER ->
                       IF Between(@.s_tuple, nxt.k, @.e_tuple) = "err"
                       THEN [@ EXCEPT !.pc = "failed"]
                       ELSE [@ EXCEPT !.it.seen = @ + 1,
                                      !.keys_to_delete =
                                          IF Between(calls[c].s_tuple, nxt.k,
                                                     calls[c].e_tuple) = "in"
                                          THEN Append(@, nxt.k) ELSE @]]

MemDeleteRangeScan(c) ==
    /\ At(c, "mem", "delete_range", "scan")
    /\ MemDeleteRangeScanned(c, IterNext(storage, calls[c].it))
    /\ UNCHANGED << storage, flat, emb, attrs, data_type, key_type, last, nops, tables, web >>

\* one round of `for k in keys_to_delete: del self._storage[k]`
MemDeleteRangeDel(c) ==
    /\ At(c, "mem", "delete_range", "del")
    /\ IF Head(calls[c].keys_to_delete) \in DOMAIN storage
       THEN /\ storage' = MapPop(storage, Head(calls[c].keys_to_delete))
            /\ calls' = [calls EXCEPT ![c] =
                            [@ EXCEPT !.keys_to_delete = Tail(@),
                                      !.pc = IF Tail(calls[c].keys_to_delete) = << >>
                                             THEN "done" ELSE "del"]]
       ELSE /\ calls' = [calls EXCEPT ![c].pc = "failed"]
            /\ UNCHANGED storage
    /\ UNCHANGED << flat, emb, attrs, data_type, key_type, last, nops, tables, web >>

\* InMemoryDocumentStore.get_range: sorted(self._storage.keys()) takes the
\* keys in one go; todo are those of them the loop will read
MemGetRangeSorted(c, s_tuple, e_tuple, todo) ==
    calls' = [calls EXCEPT ![c] =
                [store |-> "mem", op |-> "get_range",
                 s_tuple |-> s_tuple, e_tuple |-> e_tuple,
                 todo |-> todo, ret |-> << >>,
                 pc |-> IF todo = << >> THEN "done" ELSE "read"]]

MemGetRangeSort(c, start_key, end_key) ==
    /\ MayCall(c, "mem")
    /\ MemGetRangeSorted(c, GetKeyTuple(start_key, KeyAttrs), GetKeyTuple(end_key, KeyAttrs),
                         SelectSeq2(Sorted(DOMAIN storage),
                                    { k \in DOMAIN storage :
                                        Between(GetKeyTuple(start_key, KeyAttrs), k,
                                                GetKeyTuple(end_key, KeyAttrs)) = "in" }))
    /\ UNCHANGED << storage, flat, emb, attrs, data_type, key_type, last, nops, tables, web >>

\* one round of the loop: self._storage[k_tuple], KeyError when it is gone
MemGetRangeRead(c) ==
    /\ At(c, "mem", "get_range", "read")
    /\ calls' = [calls EXCEPT ![c] =
                    IF Head(@.todo) \in DOMAIN storage
                    THEN [@ EXCEPT !.todo = Tail(@),
                                   !.ret = Append(@, Entry(storage, Head(calls[c].todo),
                                                           ReconstructKey(Head(calls[c].todo)))),
                                   !.pc = IF Tail(calls[c].todo) = << >>
                                          THEN "done" ELSE "read"]
                    ELSE [@ EXCEPT !.pc = "failed"]]
    /\ UNCHANGED << storage, flat, emb, attrs, data_type, key_type, last, nops, tables, web >>

\* InMemoryDocumentStore.get_by_index: the loop starts to iterate over
\* self._storage.values()
MemGetByIndexIter(c, index_key) ==
    /\ MayCall(c, "mem")
    /\ calls' = [calls EXCEPT ![c] =
                    [store |-> "mem", op |-> "get_by_index", index_key |-> index_key,
                     it |-> DictIter(storage), ret |-> << >>, pc |-> "scan"]]
    /\ UNCHANGED << storage, flat, emb, attrs, data_type, key_type, last, nops, tables, web >>

\* one round of the loop: next value, _match_index, append
MemGetByIndexScanned(c, nxt, idx_tuple, idx_attrs) ==
    calls' = [calls EXCEPT ![c] =
                CASE nxt.kind = "error" -> [@ EXCEPT !.pc = "failed"]
                  [] nxt.kind = "stop" -> [@ EXCEPT !.pc = "done"]
                  [] OTHER ->
                       [@ EXCEPT !.it.seen = @ + 1,
                                 !.ret = IF MatchIndex(storage[nxt.k], idx_tuple, idx_attrs)
                                         THEN Append(@, FromDataDict(storage[nxt.k], NoneVal))
                                         ELSE @]]

MemGetByIndexScan(c) ==
    /\ At(c, "mem", "get_by_index", "scan")
    /\ MemGetByIndexScanned(c, IterNext(storage, calls[c].it),
                            GetKeyTuple(calls[c].index_key, IndexAttrs(calls[c].index_key)),
                            IndexAttrs(calls[c].index_key))
    /\ UNCHANGED << storage, flat, emb, attrs, data_type, key_type, last, nops, tables, web >>

\* the items a caller hands to batch_put, in the order of items.items()
\* (dicts built in the order of their keys)
ConcBatches == PreLoads(MaxBatch)

\* Variant: all remaining items are stored in one step.
MemBatchPutOne_All(st, todo) == [st |-> MemBatchPut(st, todo), todo |-> << >>]

\* one round of `for k, v in items.items(): self.put(k, v, params)`
MemBatchPutOne(st, todo) ==
    [st |-> MemPut(st, Head(todo)[1], Head(todo)[2]), todo |-> Tail(todo)]

EmbBatchPutOne(coll, todo) ==
    [st |-> EmbPut(coll, Head(todo)[1], Head(todo)[2]), todo |-> Tail(todo)]

\* batch_put starts to iterate over items.items()
BatchPutIter(c, store, items) ==
    /\ MayCall(c, store)
    /\ calls' = [calls EXCEPT ![c] =
                    [store |-> store, op |-> "batch_put", items |-> items,
                     todo |-> items, pc |-> "putting"]]
    /\ UNCHANGED << storage, flat, emb, attrs, data_type, key_type, last, nops, tables, web >>

BatchPutStepped(c, one) ==
    calls' = [calls EXCEPT ![c] =
                IF one.todo = << >>
                THEN [store |-> @.store, op |-> "batch_put", pc |-> "done"]
                ELSE [@ EXCEPT !.todo = one.todo]]

\* InMemoryDocumentStore.batch_put: the put of the next item
MemBatchPutNext(c) ==
    /\ At(c, "mem", "batch_put", "putting")
    /\ storage' = MemBatchPutOne(storage, calls[c].todo).st
    /\ BatchPutStepped(c, MemBatchPutOne(storage, calls[c].todo))
    /\ UNCHANGED << flat, emb, attrs, data_type, key_type, last, nops, tables, web >>

\* MongoEmbeddedDocumentStore.batch_put: the put of the next item (its two
\* requests are the steps EmbPutUpdate and EmbPutPush; here they are taken
\* together)
EmbBatchPutNext(c) ==
    /\ At(c, "emb", "batch_put", "putting")
    /\ emb' = EmbBatchPutOne(emb, calls[c].todo).st
    /\ BatchPutStepped(c, EmbBatchPutOne(emb, calls[c].todo))
    /\ tables' = tables \cup {"emb"}
    /\ UNCHANGED << storage, flat, attrs, data_type, key_type, last, nops, web >>

ConcNext ==
    \/ \E c \in Callers, k \in ConcKeys, v \in ConcValues : EmbPutUpdate(c, k, v)
    \/ \E c \in Callers : EmbPutPush(c)
    \/ \E c \in Callers, k \in ConcKeys, v \in ConcValues : FlatPutCall(c, k, v)
    \/ \E c \in Callers, k \in ConcKeys, v \in ConcValues : MemPutCall(c, k, v)
    \/ \E c \in Callers, k \in ConcKeys : MemDeleteCheck(c, k)
    \/ \E c \in Callers : MemDeleteDel(c)
    \/ \E c \in Callers, a \in ConcKeys, b \in ConcKeys : MemDeleteRangeIter(c, a, b)
    \/ \E c \in Callers : MemDeleteRangeScan(c)
    \/ \E c \in Callers : MemDeleteRangeDel(c)
    \/ \E c \in Callers, a \in ConcKeys, b \in ConcKeys : MemGetRangeSort(c, a, b)
    \/ \E c \in Callers : MemGetRangeRead(c)
    \/ \E c \in Callers, idx \in Indexes : MemGetByIndexIter(c, idx)
    \/ \E c \in Callers : MemGetByIndexScan(c)
    \/ \E c \in Callers, store \in {"mem", "emb"}, b \in ConcBatches : BatchPutIter(c, store, b)
    \/ \E c \in Callers : MemBatchPutNext(c)
    \/ \E c \in Callers : EmbBatchPutNext(c)

ConcSpec == ConcInit /\ [][ConcNext]_vars

(***************************************************************************)
(* The Embedded store under two concurrent callers: put in its two         *)
(* requests, batch_put item by item, and delete and delete_range, each one *)
(* request that the database applies to the partition document as a whole. *)
(***************************************************************************)
EmbDeleteCall(c, key) ==
    /\ MayCall(c, "emb")
    /\ emb' = EmbDelete(emb, key)
    /\ calls' = [calls EXCEPT ![c] =
                    [store |-> "emb", op |-> "delete", key |-> key, pc |-> "done"]]
    /\ UNCHANGED << storage, flat, attrs, data_type, key_type, last, nops, tables, web >>

EmbDeleteRangeCall(c, start_key, end_key) ==
    /\ MayCall(c, "emb")
    /\ emb' = EmbDeleteRange(emb, start_key, end_key)
    /\ calls' = [calls EXCEPT ![c] =
                    [store |-> "emb", op |-> "delete_range", start_key |-> start_key,
                     end_key |-> end_key, pc |-> "done"]]
    /\ UNCHANGED << storage, flat, attrs, data_type, key_type, last, nops, tables, web >>

EmbConcNext ==
    \/ \E c \in Callers, k \in ConcKeys, v \in ConcValues : EmbPutUpdate(c, k, v)
    \/ \E c \in Callers : EmbPutPush(c)
    \/ \E c \in Callers, b \in ConcBatches : BatchPutIter(c, "emb", b)
    \/ \E c \in Callers : EmbBatchPutNext(c)
    \/ \E c \in Callers, k \in ConcKeys : EmbDeleteCall(c, k)
    \/ \E c \in Callers, a \in ConcKeys, b \in ConcKeys : EmbDeleteRangeCall(c, a, b)

EmbConcSpec == ConcInit /\ [][EmbConcNext]_vars

(***************************************************************************)
(* A range iterator of the In-Memory store, taken element by element,      *)
(* with puts and deletes made between its steps.  get_range_iterator is a  *)
(* generator function: the call makes the generator, and its body          *)
(* (items = self.get_range(...), then the loop of yields) starts to run    *)
(* when the first element is asked for.  calls[1] is the generator: its    *)
(* arguments, its position pc, its local items and the number pos of       *)
(* elements yielded; out is what it yielded, and made and read are the     *)
(* store as it was at the call and when the body started.                  *)
(***************************************************************************)
Generator == 1

\* Variant: the store is read when get_range_iterator is called.
StoreRead_AtCall(frame, st) == frame.made

\* the store the body reads: self._storage when the body runs
StoreRead(frame, st) == st

\* the store holds one record, or none, when the iterator is made
IterInit ==
    /\ key_type = "MyKey"
    /\ attrs = DiscoverAttrsFor(key_type)
    /\ data_type = "MyNote"
    /\ \E n \in 0..1 : \E b \in PreLoads(n) :
          storage = MemBatchPut([ t \in {} |-> EmptyDict ], b)
    /\ flat = [ d \in {} |-> EmptyDict ]
    /\ emb = [ p \in {} |-> << >> ]
    /\ tables = {}
    /\ last = [op |-> "init"]
    /\ nops = 0
    /\ calls = [ c \in Callers |-> Idle ]
    /\ NoWeb

IterPut(key, data) ==
    /\ nops < MaxOps
    /\ storage' = MemPut(storage, key, data)
    /\ last' = [op |-> "put"]
    /\ nops' = nops + 1
    /\ UNCHANGED << flat, emb, attrs, data_type, key_type, calls, tables, web >>

IterDelete(key) ==
    /\ nops < MaxOps
    /\ storage' = MemDelete(storage, key)
    /\ last' = [op |-> "delete"]
    /\ nops' = nops + 1
    /\ UNCHANGED << flat, emb, attrs, data_type, key_type, calls, tables, web >>

GetRangeIteratorCall(start_key, end_key, reverse) ==
    /\ calls[Generator].pc = "idle"
    /\ calls' = [calls EXCEPT ![Generator] =
                    [store |-> "mem", op |-> "get_range_iterator", pc |-> "created",
                     start_key |-> start_key, end_key |-> end_key, reverse |-> reverse,
                     items |-> << >>, pos |-> 0, out |-> << >>, raised |-> FALSE,
                     made |-> storage, read |-> storage]]
    /\ last' = [op |-> "get_range_iterator"]
    /\ UNCHANGED << storage, flat, emb, attrs, data_type, key_type, nops, tables, web >>

\* the generator after the body ran items = self.get_range(...) and the
\* loop came to its first yield, or ended
Started(frame, res, st) ==
    IF res.raised
    THEN [frame EXCEPT !.pc = "done", !.raised = TRUE, !.read = st]
    ELSE IF res.ret = << >>
    THEN [frame EXCEPT !.pc = "done", !.read = st]
    ELSE [frame EXCEPT !.pc = "running", !.items = res.ret, !.pos = 1,
                       !.out = << res.ret[1] >>, !.read = st]

\* the loop goes to its next yield, or ends
Resumed(frame) ==
    IF frame.pos = Len(frame.items) THEN [frame EXCEPT !.pc = "done"]
    ELSE [frame EXCEPT !.pos = frame.pos + 1,
                       !.out = Append(frame.out, frame.items[frame.pos + 1])]

\* next(it)
GeneratorNext ==
    /\ calls[Generator].pc \in {"created", "running"}
    /\ calls[Generator].op = "get_range_iterator"
    /\ calls' = [calls EXCEPT ![Generator] =
                    IF calls[Generator].pc = "created"
                    THEN Started(calls[Generator],
                                 MemGetRange(StoreRead(calls[Generator], storage),
                                             calls[Generator].start_key,
                                             calls[Generator].end_key,
                                             calls[Generator].reverse),
                                 storage)
                    ELSE Resumed(calls[Generator])]
    /\ last' = [op |-> "next"]
    /\ UNCHANGED << storage, flat, emb, attrs, data_type, key_type, nops, tables, web >>

IterStep ==
    \/ \E k \in ConcKeys, v \in ConcValues : IterPut(k, v)
    \/ \E k \in ConcKeys : IterDelete(k)
    \/ \E a \in ConcKeys, b \in ConcKeys, r \in BOOLEAN :
          a.f.note_id <= b.f.note_id /\ GetRangeIteratorCall(a, b, r)
    \/ GeneratorNext

IterSpec == IterInit /\ [][IterStep]_vars

(***************************************************************************)
(* The stores constructed with a value class that has a CopyOfKey field    *)
(* (data_type=UserLibrary).  A value is put with its key field holding     *)
(* the key or None, and possibly carrying a private attribute _cache.      *)
(***************************************************************************)
LibraryFields(key) ==
    { [key |-> x, name |-> n, created_at |-> t] :
        x \in {NoneVal, key}, n \in FieldVals, t \in FieldVals }

LibraryValues(key) ==
    { Obj("UserLibrary", f) : f \in LibraryFields(key) }
    \cup { Obj("UserLibrary", [ a \in DOMAIN f \cup {"_cache"} |->
                                  IF a = "_cache" THEN 1 ELSE f[a] ]) :
             f \in LibraryFields(key) }

LibInit ==
    /\ storage = [ t \in {} |-> EmptyDict ]
    /\ flat = [ d \in {} |-> EmptyDict ]
    /\ emb = [ p \in {} |-> << >> ]
    /\ tables = {}
    /\ key_type = "MyKey"
    /\ attrs = DiscoverAttrsFor(key_type)
    /\ data_type = "UserLibrary"
    /\ last = [op |-> "init"]
    /\ nops = 0
    /\ calls = [ c \in Callers |-> Idle ]
    /\ NoWeb

LibNext ==
    \/ \E k \in ConcKeys : \E v \in LibraryValues(k) : Put(k, v)
    \/ \E k \in ConcKeys : Delete(k)

LibSpec == LibInit /\ [][LibNext]_vars

(***************************************************************************)
(* The stores with their tables created and dropped, as the server does    *)
(* at start-up before records are put.                                     *)
(***************************************************************************)
TableNext ==
    \/ \E k \in ConcKeys, v \in ConcValues : Put(k, v)
    \/ CreateTable
    \/ DropTable

TableSpec == Init /\ [][TableNext]_vars

(***************************************************************************)
(* InMemorySessionStore.  sessions maps a session id to its object, ttl    *)
(* and last_access; now is the value of time.time().  A session object is  *)
(* a dict of items or another value; an item is a scalar or a list.        *)
(***************************************************************************)
List(xs) == [kind |-> "list", xs |-> xs]

SessionIds == {"s1"}
ItemNames == {"a", "b"}
\* get_session(session_id) without an item
NoItem == ""
TTLs == 1..MaxTTL
\* the indices given to put_array_item
Indices == (0 - 2)..(MaxList + 1)
Elems == {Scalar(1), Scalar(2)}
ItemValues == {Scalar(1), List(<< Scalar(1) >>)}
\* the objects callers hand to create_session and update_session
SessionObjects ==
    { Scalar(1), Dict(EmptyDict),
      Dict([ n \in ItemNames |-> IF n = "a" THEN Scalar(1) ELSE List(<< Scalar(2) >>) ]) }

Session(obj, ttl_seconds, t) == [object |-> obj, ttl |-> ttl_seconds, last_access |-> t]

\* _is_expired: its answer, and _sessions after it (an expired session is
\* deleted by the check)
IsExpired(ss, session_id, t) ==
    IF session_id \notin DOMAIN ss THEN TRUE
    ELSE t - ss[session_id].last_access > ss[session_id].ttl

AfterCheck(ss, session_id, t) ==
    IF session_id \in DOMAIN ss /\ IsExpired(ss, session_id, t)
    THEN MapPop(ss, session_id) ELSE ss

\* Variant: a session is expired as soon as its ttl has passed.
Live_Strict(ss, session_id, t) ==
    session_id \in DOMAIN ss /\ t - ss[session_id].last_access < ss[session_id].ttl

Live(ss, session_id, t) == ~IsExpired(ss, session_id, t)

\* self._sessions[session_id]["last_access"] = time.time()
Touched(ss, session_id, obj, t) ==
    [ss EXCEPT ![session_id] = Session(obj, @.ttl, t)]

\* what _is_expired read: whether _sessions.get(session_id) found a session,
\* and elapsed
Checked(ss, session_id, t) ==
    IF session_id \in DOMAIN ss
    THEN [found |-> TRUE, elapsed |-> t - ss[session_id].last_access]
    ELSE [found |-> FALSE, elapsed |-> 0]

CreateSession(ss, session_id, obj, ttl_seconds, t) ==
    MapPut(ss, session_id, Session(obj, ttl_seconds, t))

UpdateSession(ss, session_id, obj, t) ==
    IF Live(ss, session_id, t) THEN Touched(ss, session_id, obj, t)
    ELSE AfterCheck(ss, session_id, t)

\* obj.get(item) for a dict, None for another object; the whole object
\* without an item
ItemOf(obj, item) ==
    IF item # NoItem
    THEN IF obj.kind = "dict"
         THEN IF item \in DOMAIN obj.f THEN obj.f[item] ELSE NoneVal
         ELSE NoneVal
    ELSE obj

GetSession(ss, session_id, item, t) ==
    IF ~Live(ss, session_id, t)
    THEN [ss |-> AfterCheck(ss, session_id, t), ret |-> NoneVal]
    ELSE [ss |-> Touched(ss, session_id, ss[session_id].object, t),
          ret |-> ItemOf(ss[session_id].object, item)]

DeleteSession(ss, session_id) ==
    IF session_id \in DOMAIN ss THEN MapPop(ss, session_id) ELSE ss

\* the object as a dict of items: a non-dict object is replaced by {}
AsDict(obj) == IF obj.kind = "dict" THEN obj.f ELSE EmptyDict

\* Variant: put on a missing or expired session creates it.
SessionPut_Recreate(ss, session_id, item, value, t) ==
    IF Live(ss, session_id, t)
    THEN Touched(ss, session_id,
                 Dict(MapPut(AsDict(ss[session_id].object), item, value)), t)
    ELSE CreateSession(ss, session_id, Dict([ n \in {item} |-> value ]), 1, t)

SessionPut(ss, session_id, item, value, t) ==
    IF Live(ss, session_id, t)
    THEN Touched(ss, session_id,
                 Dict(MapPut(AsDict(ss[session_id].object), item, value)), t)
    ELSE AfterCheck(ss, session_id, t)

\* obj[array_item] when it is a list, [] otherwise
ArrayOf(f, array_item) ==
    IF array_item \in DOMAIN f
    THEN IF f[array_item].kind = "list" THEN f[array_item].xs ELSE << >>
    ELSE << >>

\* Variant: an index past the end appends as well.
ArrayPut_Lenient(arr, index, value) ==
    IF index = -1 THEN Append(arr, value)
    ELSE IF 0 <= index /\ index < Len(arr) THEN [arr EXCEPT ![index + 1] = value]
    ELSE IF index >= Len(arr) THEN Append(arr, value)
    ELSE arr

\* the if/elif chain on index
ArrayPut(arr, index, value) ==
    IF index = -1 THEN Append(arr, value)
    ELSE IF 0 <= index /\ index < Len(arr) THEN [arr EXCEPT ![index + 1] = value]
    ELSE IF index = Len(arr) THEN Append(arr, value)
    ELSE arr

PutArrayItem(ss, session_id, array_item, index, value, t) ==
    IF Live(ss, session_id, t)
    THEN Touched(ss, session_id,
                 Dict(MapPut(AsDict(ss[session_id].object), array_item,
                             List(ArrayPut(ArrayOf(AsDict(ss[session_id].object), array_item),
                                           index, value)))), t)
    ELSE AfterCheck(ss, session_id, t)

\* the lists of a session store are no longer than MaxList
Bounded(ss) ==
    \A i \in DOMAIN ss :
       ss[i].object.kind = "dict" =>
          \A n \in DOMAIN ss[i].object.f :
             ss[i].object.f[n].kind = "list" => Len(ss[i].object.f[n].xs) <= MaxList

SessInit ==
    /\ storage = [ t \in {} |-> EmptyDict ]
    /\ flat = [ d \in {} |-> EmptyDict ]
    /\ emb = [ p \in {} |-> << >> ]
    /\ tables = {}
    /\ key_type = "MyKey"
    /\ attrs = DiscoverAttrsFor(key_type)
    /\ data_type = "MyNote"
    /\ last = [op |-> "init"]
    /\ nops = 0
    /\ calls = [ c \in Callers |-> Idle ]
    /\ NoWeb

\* a call on the session store is counted and leaves the rest alone
SessionFrame ==
    /\ nops < MaxOps
    /\ nops' = nops + 1
    /\ UNCHANGED << storage, flat, emb, attrs, data_type, key_type, calls, tables, now, uploads >>

\* time passes
Tick ==
    /\ now < MaxTime
    /\ now' = now + 1
    /\ last' = [op |-> "tick"]
    /\ UNCHANGED << storage, flat, emb, attrs, data_type, key_type, nops, calls, tables,
                    sessions, uploads >>

CreateSessionCall(session_id, obj, ttl_seconds) ==
    /\ sessions' = CreateSession(sessions, session_id, obj, ttl_seconds, now)
    /\ last' = [op |-> "create_session", session_id |-> session_id]
    /\ SessionFrame

UpdateSessionCall(session_id, obj) ==
    /\ sessions' = UpdateSession(sessions, session_id, obj, now)
    /\ last' = [op |-> "update_session", session_id |-> session_id, obj |-> obj,
                checked |-> Checked(sessions, session_id, now)]
    /\ SessionFrame

GetSessionCall(session_id, item) ==
    /\ sessions' = GetSession(sessions, session_id, item, now).ss
    /\ last' = [op |-> "get_session", session_id |-> session_id, item |-> item,
                ret |-> GetSession(sessions, session_id, item, now).ret,
                checked |-> Checked(sessions, session_id, now)]
    /\ SessionFrame

DeleteSessionCall(session_id) ==
    /\ sessions' = DeleteSession(sessions, session_id)
    /\ last' = [op |-> "delete_session", session_id |-> session_id]
    /\ SessionFrame

SessionPutCall(session_id, item, value) ==
    /\ sessions' = SessionPut(sessions, session_id, item, value, now)
    /\ last' = [op |-> "put", session_id |-> session_id, item |-> item, value |-> value,
                checked |-> Checked(sessions, session_id, now)]
    /\ SessionFrame

PutArrayItemCall(session_id, array_item, index, value) ==
    /\ Bounded(PutArrayItem(sessions, session_id, array_item, index, value, now))
    /\ sessions' = PutArrayItem(sessions, session_id, array_item, index, value, now)
    /\ last' = [op |-> "put_array_item", session_id |-> session_id,
                array_item |-> array_item, index |-> index, value |-> value,
                checked |-> Checked(sessions, session_id, now)]
    /\ SessionFrame

SessNext ==
    \/ Tick
    \/ \E i \in SessionIds, obj \in SessionObjects, ttl \in TTLs : CreateSessionCall(i, obj, ttl)
    \/ \E i \in SessionIds, obj \in SessionObjects : UpdateSessionCall(i, obj)
    \/ \E i \in SessionIds, item \in ItemNames \cup {NoItem} : GetSessionCall(i, item)
    \/ \E i \in SessionIds : DeleteSessionCall(i)
    \/ \E i \in SessionIds, item \in ItemNames, v \in ItemValues : SessionPutCall(i, item, v)
    \/ \E i \in SessionIds, item \in ItemNames, n \in Indices, v \in Elems :
          PutArrayItemCall(i, item, n, v)

SessSpec == SessInit /\ [][SessNext]_vars

(***************************************************************************)
(* The upload requests of server.py.  The server keeps its sessions in an  *)
(* InMemorySessionStore; uploads holds what it keeps in Mongo: the         *)
(* libraries of user_library_store, the frames of user_uploads_store under *)
(* << session_id, frame_id >>, the books of user_books_store under         *)
(* << library_id, shelf, book_id >>, and the session ids init_upload has   *)
(* issued (uuid4 never gives one twice).  One user makes the requests, all *)
(* within the sessions' ttl.  A shelf or session_id of None is the empty   *)
(* string, a book without isbn has isbn ""; the frame ids are integers,    *)
(* 0 among them (None, as falsy as 0, is left to it).                      *)
(***************************************************************************)
NoShelf == ""

NoSession == ""

Shelves == {NoShelf, "A"}

FrameIds == 0..MaxFrame

Books == { [isbn |-> "i1", count |-> 1], [isbn |-> "i1", count |-> 2],
           [isbn |-> "", count |-> 1] }

BookLists == {<< >>} \cup { << b >> : b \in Books } \cup { << b, b >> : b \in Books }

Frame(frame_id, shelf, books) == [frame_id |-> frame_id, shelf |-> shelf, books |-> books]

\* the results a request can carry: up to two frames of one book each, of
\* no shelf
RequestFrames == { Frame(n, NoShelf, << b >>) : n \in FrameIds, b \in Books }

RequestResults ==
    {<< >>} \cup { << f >> : f \in RequestFrames }
            \cup { << f, g >> : f \in RequestFrames, g \in RequestFrames }

FrameKey(frame_id) == "books_" \o ToString(frame_id)

\* deduplicate_proximity: a book whose (isbn, count) is among the recent
\* entries adds its frame_id to that entry, any other book is copied to the
\* end.  frame_ids is empty where the source's book has no "frame_ids".
Recent(recent, key) == { n \in 1..Len(recent) : recent[n].key = key }

AddFrameId(entry, frame_id) ==
    IF Truthy(frame_id) /\ \A n \in 1..Len(entry.frame_ids) : entry.frame_ids[n] # frame_id
    THEN [entry EXCEPT !.frame_ids = Append(@, frame_id)]
    ELSE entry

BookCopy(book) ==
    [isbn |-> book.isbn, count |-> book.count, frame_id |-> book.frame_id,
     frame_ids |-> IF Truthy(book.frame_id) THEN << book.frame_id >> ELSE << >>,
     shelves |-> {}]

Remember(recent, key, idx, window_size) ==
    IF Len(recent) + 1 > window_size
    THEN Tail(Append(recent, [key |-> key, idx |-> idx]))
    ELSE Append(recent, [key |-> key, idx |-> idx])

RECURSIVE ProximityWalk(_, _, _, _)
ProximityWalk(books, deduplicated, recent, window_size) ==
    IF books = << >> THEN deduplicated
    ELSE IF Head(books).isbn # ""
            /\ Recent(recent, << Head(books).isbn, Head(books).count >>) # {}
    THEN ProximityWalk(Tail(books),
             [deduplicated EXCEPT
                ![recent[CHOOSE n \in Recent(recent, << Head(books).isbn, Head(books).count >>) : TRUE].idx]
                    = AddFrameId(@, Head(books).frame_id)],
             recent, window_size)
    ELSE ProximityWalk(Tail(books),
             Append(deduplicated, BookCopy(Head(books))),
             IF Head(books).isbn # ""
             THEN Remember(recent, << Head(books).isbn, Head(books).count >>,
                           Len(deduplicated) + 1, window_size)
             ELSE recent,
             window_size)

DeduplicateProximityIn(books, window_size) == ProximityWalk(books, << >>, << >>, window_size)

\* with the default window_size, as complete_upload calls it
DeduplicateProximity(books) == DeduplicateProximityIn(books, WindowSize)

\* complete_upload, lines 414-423: every book of every result with the
\* result's frame_id
RECURSIVE AllBooksToDedupe(_)
AllBooksToDedupe(results) ==
    IF results = << >> THEN << >>
    ELSE [ n \in 1..Len(Head(results).books) |->
             [isbn |-> Head(results).books[n].isbn,
              count |-> Head(results).books[n].count,
              frame_id |-> Head(results).frame_id] ]
         \o AllBooksToDedupe(Tail(results))

\* line 425: the shelf of the last result with the frame_id
FrameToShelf(results, frame_id) ==
    results[CHOOSE n \in 1..Len(results) :
               /\ results[n].frame_id = frame_id
               /\ \A m \in (n + 1)..Len(results) : results[m].frame_id # frame_id].shelf

\* lines 428-430; book["frame_ids"] is a KeyError for a book without them
ShelvesOf(results, book) ==
    { FrameToShelf(results, book.frame_ids[n]) : n \in 1..Len(book.frame_ids) }

WithShelves(results, deduped) ==
    [ n \in 1..Len(deduped) |->
        [deduped[n] EXCEPT !.shelves = ShelvesOf(results, deduped[n])] ]

NoFrameIds(deduped) == \E n \in 1..Len(deduped) : deduped[n].frame_ids = << >>

\* lines 434-460: the shelf a book is stored on, "Unshelved" when its
\* frames name none
StoredOn(book) ==
    IF book.shelves \ {NoShelf} = {} THEN {"Unshelved"} ELSE book.shelves \ {NoShelf}

BookId(book) == IF book.isbn # "" THEN book.isbn ELSE "|"

\* _store_books_to_library for every affected shelf: the shelf's books are
\* deleted and the new ones put, a later book over an earlier one of its id.
\* The key, the record and the put are in the body of `if not book_id:`, so
\* a book is put only when it has no ISBN.
IsPut(book) == book.isbn = ""

Affected(books) == UNION { StoredOn(books[n]) : n \in 1..Len(books) }

LibraryBook(book) == [isbn |-> book.isbn, frame_ids |-> book.frame_ids, copies |-> book.count]

PutAs(books, shelf, book_id) ==
    { n \in 1..Len(books) :
        shelf \in StoredOn(books[n]) /\ IsPut(books[n]) /\ BookId(books[n]) = book_id }

LastOf(S) == CHOOSE n \in S : \A m \in S : m <= n

StoredBooks(user_books, library_id, books) ==
    [ k \in { j \in DOMAIN user_books : ~ (j[1] = library_id /\ j[2] \in Affected(books)) }
            \cup UNION { { << library_id, s, BookId(books[n]) >> : s \in StoredOn(books[n]) }
                         : n \in { m \in 1..Len(books) : IsPut(books[m]) } }
      |-> IF k[1] = library_id /\ k[2] \in Affected(books)
          THEN LibraryBook(books[LastOf(PutAs(books, k[2], k[3]))])
          ELSE user_books[k] ]

RECURSIVE Ascending(_)
Ascending(S) ==
    IF S = {} THEN << >>
    ELSE << CHOOSE n \in S : \A m \in S : n <= m >>
         \o Ascending(S \ { CHOOSE n \in S : \A m \in S : n <= m })

OnShelf(results, shelf) ==
    SelectSeq(results, LAMBDA r : shelf = NoShelf \/ r.shelf = shelf)

\* _get_uploaded_frames, lines 491-504: the session's frame results in the
\* order of their frame numbers, those of the shelf when one is asked for
SessionFrames(f, nums) == [ n \in 1..Len(nums) |-> f[FrameKey(nums[n])] ]

SessionResults(obj, shelf) ==
    OnShelf(SessionFrames(obj.f, Ascending({ n \in FrameIds : FrameKey(n) \in DOMAIN obj.f })),
            shelf)

\* lines 508-519: the frames the uploads table holds for the session
UploadFrames(user_uploads, session_id, nums) ==
    [ n \in 1..Len(nums) |->
        Frame(nums[n], user_uploads[<< session_id, nums[n] >>].shelf,
              user_uploads[<< session_id, nums[n] >>].books) ]

UploadNums(user_uploads, session_id) ==
    Ascending({ n \in FrameIds : << session_id, n >> \in DOMAIN user_uploads })

UploadResults(user_uploads, session_id, shelf) ==
    OnShelf(UploadFrames(user_uploads, session_id, UploadNums(user_uploads, session_id)), shelf)

\* what _get_uploaded_frames leaves: the session store, the results, and
\* library_id with whether the local was ever assigned
Uploaded(ss, results, library_id, bound, from) ==
    [ss |-> ss, results |-> results, library_id |-> library_id, bound |-> bound,
     from |-> from]

FromSession(got, shelf) ==
    Uploaded(got.ss, SessionResults(got.ret, shelf), got.ret.f.library_id, TRUE, "session")

FromUploads(ss, user_uploads, session_id, shelf, nums) ==
    Uploaded(ss, UploadResults(user_uploads, session_id, shelf),
             IF nums = << >> THEN ""
             ELSE user_uploads[<< session_id, nums[1] >>].library_id,
             nums # << >>, "uploads")

GetUploadedFrames(ss, user_uploads, session_id, shelf, results, t) ==
    IF results = << >> /\ session_id # NoSession
    THEN IF GetSession(ss, session_id, NoItem, t).ret # NoneVal
         THEN FromSession(GetSession(ss, session_id, NoItem, t), shelf)
         ELSE FromUploads(GetSession(ss, session_id, NoItem, t).ss, user_uploads,
                          session_id, shelf, UploadNums(user_uploads, session_id))
    ELSE Uploaded(ss, results, "", FALSE, "request")

\* a request is counted and leaves the document stores and the clock alone
RequestFrame ==
    /\ nops < MaxCalls
    /\ nops' = nops + 1
    /\ UNCHANGED << storage, flat, emb, attrs, data_type, key_type, calls, tables, now >>

\* init_upload for the library "My Library": the library is put when the
\* user has none of the name, and a session of a new id is created
InitUpload ==
    \E session_id \in SessionIds \ uploads.issued :
        /\ RequestFrame
        /\ sessions' = CreateSession(sessions, session_id,
                                     Dict([library_id |-> "my_library"]), SessionTtl, now)
        /\ uploads' = [uploads EXCEPT !.issued = @ \cup {session_id},
                                      !.libraries = @ \cup {"my_library"}]
        /\ last' = [op |-> "init_upload", session_id |-> session_id]

\* upload_frame with the books the image gave, enriched: without books it
\* only reads the session; with books the frame is put to the uploads table
\* and, when the session is live, under books_<frame_id> in the session
UploadFrameWith(got, session_id, frame_id, shelf, books) ==
    /\ sessions' = IF books # << >> /\ got.ret # NoneVal
                   THEN SessionPut(got.ss, session_id, FrameKey(frame_id),
                                   Frame(frame_id, shelf, books), now)
                   ELSE got.ss
    /\ uploads' = IF books = << >> THEN uploads
                  ELSE [uploads EXCEPT !.user_uploads =
                          MapPut(@, << session_id, frame_id >>,
                                 [shelf |-> shelf, books |-> books,
                                  library_id |-> IF got.ret # NoneVal
                                                 THEN got.ret.f.library_id ELSE ""])]

UploadFrame ==
    \E session_id \in uploads.issued \cup {NoSession}, frame_id \in FrameIds,
       shelf \in Shelves, books \in BookLists :
        /\ RequestFrame
        /\ UploadFrameWith(GetSession(sessions, session_id, NoItem, now),
                           session_id, frame_id, shelf, books)
        /\ last' = [op |-> "upload_frame", session_id |-> session_id]

\* the answer of complete_upload: the status it returned or the exception
\* it raised, with the books and the count of the duplicates removed
Answer(req, got, status, raised, books, proximity_deduped) ==
    [op |-> "complete_upload", session_id |-> req.session_id,
     explicit |-> req.results # << >>,
     n_input |-> Len(AllBooksToDedupe(req.results)),
     from |-> got.from, library_id |-> got.library_id, status |-> status, raised |-> raised, books |-> books,
     proximity_deduped |-> proximity_deduped]

CompleteUploadDone(req, got, all, deduped) ==
    IF NoFrameIds(deduped)
    THEN /\ sessions' = got.ss
         /\ uploads' = uploads
         /\ last' = Answer(req, got, "", "KeyError", << >>, 0)
    ELSE /\ uploads' = [uploads EXCEPT !.user_books =
                          StoredBooks(@, got.library_id, WithShelves(got.results, deduped))]
         /\ sessions' = IF req.session_id # NoSession
                        THEN DeleteSession(got.ss, req.session_id)
                        ELSE got.ss
         /\ last' = Answer(req, got, "success", "",
                           WithShelves(got.results, deduped), Len(all) - Len(deduped))

\* complete_upload: _get_uploaded_frames returns None without results, and
\* unpacking None is a TypeError; with the request's own results it returns
\* a library_id that was never assigned, an UnboundLocalError
CompleteUploadWith(req, got) ==
    IF got.results = << >>
    THEN /\ sessions' = got.ss
         /\ uploads' = uploads
         /\ last' = Answer(req, got, "", "TypeError", << >>, 0)
    ELSE IF ~got.bound
    THEN /\ sessions' = got.ss
         /\ uploads' = uploads
         /\ last' = Answer(req, got, "", "UnboundLocalError", << >>, 0)
    ELSE CompleteUploadDone(req, got, AllBooksToDedupe(got.results),
                            DeduplicateProximity(AllBooksToDedupe(got.results)))

CompleteUpload ==
    \E session_id \in uploads.issued \cup {NoSession}, results \in RequestResults,
       shelf \in Shelves :
        /\ results # << >> => shelf = NoShelf
        /\ RequestFrame
        /\ CompleteUploadWith([session_id |-> session_id, shelf |-> shelf, results |-> results],
                              GetUploadedFrames(sessions, uploads.user_uploads, session_id,
                                                shelf, results, now))

UploadNext ==
    \/ InitUpload
    \/ UploadFrame
    \/ CompleteUpload

UploadSpec == SessInit /\ [][UploadNext]_vars

(***************************************************************************)
(* deduplicate_counting of deduplicator.py over lists of up to MaxBooks    *)
(* books.  A text is the sequence of its characters; NoneText is None,     *)
(* which is no text; a book without isbn has the isbn << >>, and a book    *)
(* without title or author is read as one with the text << >>.             *)
(***************************************************************************)
NoneText == << "None" >>

Titles == { NoneText, << >>, << "a" >>, << "A" >>, << "a", " " >>, << "a", "|" >> }

Authors == { NoneText, << >>, << "|" >> }

Isbns == { << >>, << "1" >> }

CountedBooks == [isbn : Isbns, title : Titles, author : Authors]

BookSeqs == UNION { [1..n -> CountedBooks] : n \in 0..MaxBooks }

\* str.lower and str.strip
Lower(text) == [ n \in 1..Len(text) |-> IF text[n] = "A" THEN "a" ELSE text[n] ]

RECURSIVE LStrip(_)
LStrip(text) ==
    IF text # << >> /\ Head(text) = " " THEN LStrip(Tail(text)) ELSE text

Strip(text) == Reverse(LStrip(Reverse(LStrip(text))))

\* lines 63-69: the key, and whether computing it raises AttributeError
\* (None has no lower)
KeyRaises(book) ==
    book.isbn = << >> /\ (book.title = NoneText \/ book.author = NoneText)

CountingKey(book) ==
    IF book.isbn # << >>
    THEN << "isbn:" >> \o book.isbn
    ELSE << "ta:" >> \o Strip(Lower(book.title)) \o << "|" >> \o Strip(Lower(book.author))

\* lines 71-76: unique_books in the order of insertion
Slot(unique_books, key) == { n \in 1..Len(unique_books) : unique_books[n].key = key }

Counted(unique_books, book, key) ==
    IF Slot(unique_books, key) # {}
    THEN [ n \in 1..Len(unique_books) |->
             IF unique_books[n].key = key
             THEN [unique_books[n] EXCEPT !.count = @ + 1]
             ELSE unique_books[n] ]
    ELSE Append(unique_books, [key |-> key, book |-> book, count |-> 1])

RECURSIVE CountingWalk(_, _)
CountingWalk(books, unique_books) ==
    IF books = << >> THEN Ok(unique_books)
    ELSE IF KeyRaises(Head(books)) THEN Raised
    ELSE CountingWalk(Tail(books),
                      Counted(unique_books, Head(books), CountingKey(Head(books))))

\* the books returned, each with its count
DeduplicateCounting(books) ==
    IF CountingWalk(books, << >>).raised THEN [raised |-> TRUE, ret |-> << >>]
    ELSE Ok([ n \in 1..Len(CountingWalk(books, << >>).ret) |->
                [book |-> CountingWalk(books, << >>).ret[n].book,
                 count |-> CountingWalk(books, << >>).ret[n].count] ])

DedupInit ==
    /\ storage = [ t \in {} |-> EmptyDict ]
    /\ flat = [ d \in {} |-> EmptyDict ]
    /\ emb = [ p \in {} |-> << >> ]
    /\ tables = {}
    /\ key_type = "MyKey"
    /\ attrs = DiscoverAttrsFor(key_type)
    /\ data_type = "MyNote"
    /\ last \in { [op |-> "books", books |-> books] : books \in BookSeqs }
    /\ nops = 0
    /\ calls = [ c \in Callers |-> Idle ]
    /\ NoWeb

DeduplicateCountingCall ==
    /\ last.op = "books"
    /\ last' = [op |-> "deduplicate_counting", books |-> last.books,
                raised |-> DeduplicateCounting(last.books).raised,
                ret |-> DeduplicateCounting(last.books).ret]
    /\ nops' = nops + 1
    /\ UNCHANGED << storage, flat, emb, attrs, data_type, key_type, calls, tables, web >>

DedupNext == DeduplicateCountingCall

DedupSpec == DedupInit /\ [][DedupNext]_vars

(***************************************************************************)
(* deduplicate_proximity over lists of up to MaxBooks books, each with an  *)
(* isbn ("" for none), a count and a frame_id (PyNone for none), and       *)
(* window sizes up to MaxWindow.                                           *)
(***************************************************************************)
ProximityBooks ==
    [isbn : {"", "i1", "i2"}, count : {1, 2}, frame_id : {PyNone} \cup FrameIds]

ProximitySeqs == UNION { [1..n -> ProximityBooks] : n \in 0..MaxBooks }

ProxInit ==
    /\ storage = [ t \in {} |-> EmptyDict ]
    /\ flat = [ d \in {} |-> EmptyDict ]
    /\ emb = [ p \in {} |-> << >> ]
    /\ tables = {}
    /\ key_type = "MyKey"
    /\ attrs = DiscoverAttrsFor(key_type)
    /\ data_type = "MyNote"
    /\ last \in { [op |-> "books", books |-> books, window_size |-> w] :
                    books \in ProximitySeqs, w \in 1..MaxWindow }
    /\ nops = 0
    /\ calls = [ c \in Callers |-> Idle ]
    /\ NoWeb

DeduplicateProximityCall ==
    /\ last.op = "books"
    /\ last' = [op |-> "deduplicate_proximity", books |-> last.books,
                window_size |-> last.window_size,
                ret |-> DeduplicateProximityIn(last.books, last.window_size)]
    /\ nops' = nops + 1
    /\ UNCHANGED << storage, flat, emb, attrs, data_type, key_type, calls, tables, web >>

ProxNext == DeduplicateProximityCall

ProxSpec == ProxInit /\ [][ProxNext]_vars

(***************************************************************************)
(* deduplicate_richness over lists of up to MaxBooks books, each with a    *)
(* title, an author and a publisher ("" for a field that is missing or     *)
(* empty; no text of the model has blanks around it) and a count (PyNone   *)
(* for a book without one).                                                *)
(***************************************************************************)
RichBooks ==
    [title : {"", "null", "G", "g", "H"}, author : {"", "A"}, publisher : {"", "P"},
     count : {PyNone, 2}]

RichSeqs == UNION { [1..n -> RichBooks] : n \in 0..MaxBooks }

\* str.lower on the texts of the model
LowerStr(v) == CASE v = "G" -> "g" [] v = "H" -> "h" [] v = "A" -> "a" [] v = "P" -> "p"
                 [] OTHER -> v

\* get_key: "" stands for None
GetKey(book) ==
    IF book.title = "" \/ LowerStr(book.title) = "null" THEN "" ELSE LowerStr(book.title)

\* get_richness: the values of the book that are neither empty nor "null",
\* the count among them
Counts(v) == IF v # "" /\ LowerStr(v) # "null" THEN 1 ELSE 0

GetRichness(book) ==
    Counts(book.title) + Counts(book.author) + Counts(book.publisher)
    + (IF Truthy(book.count) THEN 1 ELSE 0)

\* book.get("count", 1)
CountOf(book) == IF book.count = PyNone THEN 1 ELSE book.count

\* lines 111-124: the better of the entry and the book, with both counts
Richer(existing_book, book) ==
    IF GetRichness(book) > GetRichness(existing_book)
    THEN [book EXCEPT !.count = CountOf(existing_book) + CountOf(book)]
    ELSE [existing_book EXCEPT !.count = CountOf(existing_book) + CountOf(book)]

\* lines 135-141: the new key is tracked, and the oldest key is dropped
\* when more than window_size are tracked and it is far enough back
Oldest(recent_keys) == CHOOSE r \in recent_keys : \A q \in recent_keys : r.idx <= q.idx

Tracked(recent_keys, window_size, curr_idx) ==
    IF Cardinality(recent_keys) > window_size
       /\ Oldest(recent_keys).idx < curr_idx - window_size
    THEN recent_keys \ {Oldest(recent_keys)}
    ELSE recent_keys

IdxOf(recent_keys, key) == (CHOOSE r \in recent_keys : r.key = key).idx

RECURSIVE RichnessWalk(_, _, _, _)
RichnessWalk(books, deduplicated, recent_keys, window_size) ==
    IF books = << >> THEN deduplicated
    ELSE IF GetKey(Head(books)) = ""
    THEN RichnessWalk(Tail(books), deduplicated, recent_keys, window_size)
    ELSE IF \E r \in recent_keys : r.key = GetKey(Head(books))
    THEN RichnessWalk(Tail(books),
             [deduplicated EXCEPT ![IdxOf(recent_keys, GetKey(Head(books)))]
                                     = Richer(@, Head(books))],
             recent_keys, window_size)
    ELSE RichnessWalk(Tail(books),
             Append(deduplicated, [Head(books) EXCEPT !.count = CountOf(Head(books))]),
             Tracked(recent_keys \cup {[key |-> GetKey(Head(books)),
                                        idx |-> Len(deduplicated) + 1]},
                     window_size, Len(deduplicated) + 1),
             window_size)

DeduplicateRichness(books, window_size) == RichnessWalk(books, << >>, {}, window_size)

RichInit ==
    /\ storage = [ t \in {} |-> EmptyDict ]
    /\ flat = [ d \in {} |-> EmptyDict ]
    /\ emb = [ p \in {} |-> << >> ]
    /\ tables = {}
    /\ key_type = "MyKey"
    /\ attrs = DiscoverAttrsFor(key_type)
    /\ data_type = "MyNote"
    /\ last \in { [op |-> "books", books |-> books, window_size |-> w] :
                    books \in RichSeqs, w \in 1..MaxWindow }
    /\ nops = 0
    /\ calls = [ c \in Callers |-> Idle ]
    /\ NoWeb

DeduplicateRichnessCall ==
    /\ last.op = "books"
    /\ last' = [op |-> "deduplicate_richness", books |-> last.books,
                window_size |-> last.window_size,
                ret |-> DeduplicateRichness(last.books, last.window_size)]
    /\ nops' = nops + 1
    /\ UNCHANGED << storage, flat, emb, attrs, data_type, key_type, calls, tables, web >>

RichNext == DeduplicateRichnessCall

RichSpec == RichInit /\ [][RichNext]_vars

(***************************************************************************)
(* What the claims speak of.  A record is read back without its empty      *)
(* fields (an empty field and a missing field are not told apart on read). *)
(* Keys are ordered component by component, partition attributes first;    *)
(* an empty component is the least value of its type.                      *)
(***************************************************************************)
AsRead(v) == [ a \in { b \in DOMAIN v.f : Truthy(v.f[b]) } |-> v.f[a] ]

Returns(res, v) == res # NoneVal /\ res.f = AsRead(v)

Rank(x) == IF x = PyNone THEN 0 ELSE x

KeyComponents(k) == [ i \in 1..Len(KeyAttrs) |-> Rank(k.f[KeyAttrs[i]]) ]

LexLeq(s, t) ==
    \/ s = t
    \/ \E i \in 1..Len(s) :
          /\ \A j \in 1..(i - 1) : Rank(s[j]) = Rank(t[j])
          /\ Rank(s[i]) < Rank(t[i])
    \/ \A j \in 1..Len(s) : Rank(s[j]) = Rank(t[j])

KeyLeq(a, b) == LexLeq(KeyComponents(a), KeyComponents(b))

InRange(k, a, b) == KeyLeq(a, k) /\ KeyLeq(k, b)

TupleInRange(t, a, b) == LexLeq(KeyComponents(a), t) /\ LexLeq(t, KeyComponents(b))

\* the keys whose components are all given
GivenKeys == { k \in Keys : \A a \in DOMAIN k.f : k.f[a] # PyNone }

GetAll(st, fl, em, k) == << MemGet(st, k), FlatGet(fl, k), EmbGet(em, k) >>

(***************************************************************************)
(* C1: on every backend, after put(k, v) a get(k) returns the record v,    *)
(* and a later put, delete or delete_range on other keys does not change   *)
(* what get(k) returns.                                                    *)
(***************************************************************************)
C1_PutThenGetUntilTouched ==
    [][ \A k \in Keys :
          /\ \A v \in Values :
                Put(k, v) => \A i \in 1..3 : Returns(GetAll(storage', flat', emb', k)[i], v)
          /\ ( \/ \E k2 \in Keys \ {k}, v2 \in Values : Put(k2, v2)
               \/ \E k2 \in Keys \ {k} : Delete(k2)
               \/ \E a \in Keys, b \in Keys : ~InRange(k, a, b) /\ DeleteRange(a, b) )
             => \A i \in 1..3 :
                   GetAll(storage, flat, emb, k)[i] # NoneVal
                      => GetAll(storage', flat', emb', k)[i] = GetAll(storage, flat, emb, k)[i] ]_vars

(***************************************************************************)
(* C2: on the In-Memory backend get_range(a, b) with a <= b returns        *)
(* exactly the stored records whose key tuple lies in [a, b], each once,   *)
(* in ascending tuple order, and in descending order with reverse set.     *)
(***************************************************************************)
RECURSIVE LexSorted(_)
LexSorted(S) ==
    IF S = {} THEN << >>
    ELSE LET m == CHOOSE x \in S : \A y \in S : LexLeq(x, y)
         IN << m >> \o LexSorted(S \ {m})

C2_MemGetRangeExact ==
    \A a \in GivenKeys, b \in GivenKeys, r \in BOOLEAN :
       KeyLeq(a, b) =>
          LET res == MemGetRange(storage, a, b, r)
              asc == LexSorted({ t \in DOMAIN storage : TupleInRange(t, a, b) })
              want == IF r THEN Reverse(asc) ELSE asc
          IN /\ ~res.raised
             /\ Len(res.ret) = Len(want)
             /\ \A i \in 1..Len(want) :
                   /\ GetKeyTuple(res.ret[i].key, KeyAttrs) = want[i]
                   /\ res.ret[i].value.f = storage[want[i]]

(***************************************************************************)
(* C3: round trip: the key reconstructed from the tuple of a key k that    *)
(* was put is k, whatever values the components of k hold.                 *)
(***************************************************************************)
C3_KeyRoundTrip ==
    last.op = "put" => ReconstructKey(GetKeyTuple(last.key, KeyAttrs)) = last.key

(***************************************************************************)
(* C4: keys that differ in a component have different tuples, so           *)
(* put(k1, v) changes what get(k2) returns for no k2 other than k1.        *)
(***************************************************************************)
C4_DistinctKeysDistinctRecords ==
    [][ \A k1 \in Keys, v \in Values :
          Put(k1, v) =>
             \A k2 \in Keys \ {k1} :
                /\ GetKeyTuple(k2, KeyAttrs) # GetKeyTuple(k1, KeyAttrs)
                /\ MemGet(storage', k2) = MemGet(storage, k2)
                /\ FlatGet(flat', k2) = FlatGet(flat, k2)
                /\ EmbGet(emb', k2) = EmbGet(emb, k2) ]_vars

(***************************************************************************)
(* C5: put is a full overwrite: after a put(k, v2), also one that finds a  *)
(* record of k with fields v2 lacks, get(k) returns exactly the fields of  *)
(* v2 on every backend.                                                    *)
(***************************************************************************)
C5_PutOverwrites ==
    last.op = "put" =>
       \A i \in 1..3 : Returns(GetAll(storage, flat, emb, last.key)[i], last.data)

C5_Witness ==
    /\ last.op = "put"
    /\ last.prev # NoneVal
    /\ \E a \in DOMAIN last.prev.f : a \notin DOMAIN AsRead(last.data)
    /\ AsRead(last.data) # EmptyDict
    /\ \A i \in 1..3 : Returns(GetAll(storage, flat, emb, last.key)[i], last.data)

(***************************************************************************)
(* C6: put(k, v) executed a second time changes no store, and the          *)
(* Embedded partition then holds exactly one item with the sort key of k.  *)
(***************************************************************************)
ItemsOf(coll, k) == MatchingItems(coll, KeyToMongoPkQuery(k), GetSortKeyValue(k))

C6_PutIdempotent ==
    [][ (last'.op = "put" /\ last'.again) =>
           /\ UNCHANGED << storage, flat, emb >>
           /\ Cardinality(ItemsOf(emb', last'.key)) = 1 ]_vars

C6_Witness ==
    /\ last.op = "put"
    /\ last.again
    /\ AsRead(last.data) # EmptyDict
    /\ Cardinality(ItemsOf(emb, last.key)) = 1
    /\ Len(emb[KeyToMongoPkQuery(last.key)]) = 2

(***************************************************************************)
(* C7: delete_range(a, b) completes and removes exactly the records whose  *)
(* key lies in [a, b]; every other record is returned by get as before.    *)
(* (For the Embedded backend the bounds are taken inside one partition.)   *)
(***************************************************************************)
C7_DeleteRangeExact ==
    [][ \A a \in Keys, b \in Keys :
          DeleteRange(a, b) =>
             /\ ~last'.mem_raised
             /\ \A k \in GivenKeys :
                   /\ MemGet(storage', k) =
                         IF InRange(k, a, b) THEN NoneVal ELSE MemGet(storage, k)
                   /\ FlatGet(flat', k) =
                         IF InRange(k, a, b) THEN NoneVal ELSE FlatGet(flat, k)
                   /\ a.f.user_id = b.f.user_id =>
                         EmbGet(emb', k) =
                            IF InRange(k, a, b) THEN NoneVal ELSE EmbGet(emb, k) ]_vars

(***************************************************************************)
(* C8: not-found is no error: get of a key without a record returns None,  *)
(* delete of such a key and delete_range over an interval that holds no    *)
(* record complete without raising and leave every store as it was.        *)
(* (For the Embedded backend the bounds are taken inside one partition.)   *)
(***************************************************************************)
Stored(st, k) ==
    \E t \in DOMAIN st : [ i \in 1..Len(t) |-> Rank(t[i]) ] = KeyComponents(k)

C8_NotFoundIsNoError ==
    [][ /\ \A k \in Keys :
             ~Stored(storage, k) =>
                /\ GetAll(storage, flat, emb, k) = << NoneVal, NoneVal, NoneVal >>
                /\ Delete(k) => UNCHANGED << storage, flat, emb >>
        /\ \A a \in Keys, b \in Keys :
             (DeleteRange(a, b) /\ \A t \in DOMAIN storage : ~TupleInRange(t, a, b)) =>
                /\ ~last'.mem_raised
                /\ UNCHANGED << storage, flat >>
                /\ a.f.user_id = b.f.user_id => UNCHANGED emb ]_vars

(***************************************************************************)
(* C9: batch_get(S) is the map from the keys of S for which get returns a  *)
(* record to that record, on every backend and for every S.                *)
(***************************************************************************)
GetsOf(i, S) ==
    [ k \in { j \in S : GetAll(storage, flat, emb, j)[i] # NoneVal } |->
        GetAll(storage, flat, emb, k)[i] ]

C9_BatchGetEqualsGets ==
    \A S \in KeySets :
       /\ MemBatchGet(storage, S) = GetsOf(1, S)
       /\ \A pick \in KeyMaps(S) : FlatBatchGet(flat, S, pick) = GetsOf(2, S)
       /\ EmbBatchGet(emb, S) = GetsOf(3, S)

(***************************************************************************)
(* C10: get_by_index(idx) returns exactly the stored values whose fields   *)
(* named by the index key equal the components of idx, one result for      *)
(* each such record, on every backend and in every reachable state (so     *)
(* whatever the order of the puts).                                        *)
(***************************************************************************)
Norm(x) == IF Truthy(x) THEN x ELSE PyNone

Matches(res, idx) ==
    \A a \in DOMAIN idx.f : Norm(DictGet(res.f, a)) = Norm(idx.f[a])

GetOn(i, k) ==
    CASE i = 1 -> MemGet(storage, k)
      [] i = 2 -> FlatGet(flat, k)
      [] i = 3 -> EmbGet(emb, k)

MatchingKeys(i, idx) ==
    { k \in GivenKeys : GetOn(i, k) # NoneVal /\ Matches(GetOn(i, k), idx) }

ExpectedByIndex(i, idx) ==
    LET got == [ k \in MatchingKeys(i, idx) |-> GetOn(i, k) ]
    IN [ v \in { got[k] : k \in DOMAIN got } |->
           Cardinality({ k \in DOMAIN got : got[k] = v }) ]

C10_IndexComplete ==
    \A idx \in Indexes :
       /\ MemGetByIndex(storage, idx) = ExpectedByIndex(1, idx)
       /\ FlatGetByIndex(flat, idx) = ExpectedByIndex(2, idx)
       /\ EmbGetByIndex(emb, idx) = ExpectedByIndex(3, idx)

C10_Witness ==
    \E idx \in Indexes :
       /\ Truthy(idx.f.category)
       /\ Cardinality(MatchingKeys(3, idx)) = 2
       /\ \E k \in GivenKeys :
             /\ EmbGet(emb, k) # NoneVal
             /\ k \notin MatchingKeys(3, idx)
             /\ \E k2 \in MatchingKeys(3, idx) : k2.f.user_id = k.f.user_id
       /\ EmbGetByIndex(emb, idx) = ExpectedByIndex(3, idx)
       /\ MemGetByIndex(storage, idx) = EmbGetByIndex(emb, idx)

(***************************************************************************)
(* C11: get_by_index_range(s, e) returns exactly the stored values whose   *)
(* index tuple t satisfies s <= t <= e, ascending by t, and descending by  *)
(* t with reverse set, on every backend.                                   *)
(***************************************************************************)
\* a falsy field is stored as an absent one, and both rank as None
IndexRank(res, idx) ==
    [ i \in 1..Len(IndexAttrs(idx)) |-> Rank(Norm(DictGet(res.f, IndexAttrs(idx)[i]))) ]

IndexKeyRank(idx) ==
    [ i \in 1..Len(IndexAttrs(idx)) |-> Rank(Norm(idx.f[IndexAttrs(idx)[i]])) ]

InIndexRange(i, k, s_idx, e_idx) ==
    /\ GetOn(i, k) # NoneVal
    /\ LexLeq(IndexKeyRank(s_idx), IndexRank(GetOn(i, k), s_idx))
    /\ LexLeq(IndexRank(GetOn(i, k), s_idx), IndexKeyRank(e_idx))

\* the values with index rank t among the records of the range, as a bag
RangeGroup(i, s_idx, e_idx, t) ==
    LET ks == { k \in GivenKeys :
                  InIndexRange(i, k, s_idx, e_idx) /\ IndexRank(GetOn(i, k), s_idx) = t }
    IN [ v \in { GetOn(i, k) : k \in ks } |-> Cardinality({ k \in ks : GetOn(i, k) = v }) ]

ExpectedIndexRange(i, s_idx, e_idx, reverse) ==
    LET asc == LexSorted({ IndexRank(GetOn(i, k), s_idx) :
                             k \in { j \in GivenKeys : InIndexRange(i, j, s_idx, e_idx) } })
    IN IF reverse THEN Reverse(asc) ELSE asc

IndexRangeAsExpected(i, res, s_idx, e_idx, reverse) ==
    /\ ~res.raised
    /\ Len(res.ret) = Len(ExpectedIndexRange(i, s_idx, e_idx, reverse))
    /\ \A n \in 1..Len(res.ret) :
          /\ [ j \in 1..Len(res.ret[n].t) |-> Rank(res.ret[n].t[j]) ]
                = ExpectedIndexRange(i, s_idx, e_idx, reverse)[n]
          /\ res.ret[n].vals
                = RangeGroup(i, s_idx, e_idx, ExpectedIndexRange(i, s_idx, e_idx, reverse)[n])

C11_IndexRangeExact ==
    \A s_idx \in Indexes, e_idx \in Indexes, r \in BOOLEAN :
       /\ IndexRangeAsExpected(1, MemGetByIndexRange(storage, s_idx, e_idx, r), s_idx, e_idx, r)
       /\ IndexRangeAsExpected(2, FlatGetByIndexRange(flat, s_idx, e_idx, r), s_idx, e_idx, r)
       /\ IndexRangeAsExpected(3, EmbGetByIndexRange(emb, s_idx, e_idx, r), s_idx, e_idx, r)

(***************************************************************************)
(* C12: after any sequence of put, batch_put, delete and delete_range, the *)
(* Flat and the Embedded backend return for get, batch_get and get_range   *)
(* (bounds inside one partition, forward and reverse) the same record      *)
(* values in the same order as the In-Memory backend.                      *)
(***************************************************************************)
ValuesOf(res) == [ i \in 1..Len(res.ret) |-> res.ret[i].value ]

SameRange(ref, res) ==
    /\ ~ref.raised
    /\ ~res.raised
    /\ ValuesOf(res) = ValuesOf(ref)

SamePartition(a, b) == GetPartitionKeyTuple(a) = GetPartitionKeyTuple(b)

C12_BackendEquivalence ==
    /\ \A k \in GivenKeys :
          /\ FlatGet(flat, k) = MemGet(storage, k)
          /\ EmbGet(emb, k) = MemGet(storage, k)
    /\ \A S \in KeySets :
          S \subseteq GivenKeys =>
             /\ \A pick \in KeyMaps(S) : FlatBatchGet(flat, S, pick) = MemBatchGet(storage, S)
             /\ EmbBatchGet(emb, S) = MemBatchGet(storage, S)
    /\ \A a \in GivenKeys, b \in GivenKeys, r \in BOOLEAN :
          SamePartition(a, b) =>
             /\ SameRange(MemGetRange(storage, a, b, r), FlatGetRange(flat, a, b, r))
             /\ SameRange(MemGetRange(storage, a, b, r), EmbGetRange(emb, a, b, r))

(***************************************************************************)
(* C13: on every backend, the key k of each pair (k, v) returned by        *)
(* get_range has the component tuple of the key the record was put under,  *)
(* so get(k) returns v.                                                    *)
(***************************************************************************)
PairsReadBack(i, res) ==
    ~res.raised =>
       \A n \in 1..Len(res.ret) :
          /\ \E k \in Keys : GetKeyTuple(res.ret[n].key, KeyAttrs) = GetKeyTuple(k, KeyAttrs)
          /\ GetOn(i, res.ret[n].key) = res.ret[n].value

C13_RangeKeysReadBack ==
    \A a \in GivenKeys, b \in GivenKeys, r \in BOOLEAN :
       /\ PairsReadBack(1, MemGetRange(storage, a, b, r))
       /\ PairsReadBack(2, FlatGetRange(flat, a, b, r))
       /\ PairsReadBack(3, EmbGetRange(emb, a, b, r))

(***************************************************************************)
(* C14: get_range(start, end) on the Embedded backend returns only items   *)
(* stored in the partition document of start's partition attributes, in    *)
(* every state and also when end lies in another partition.                *)
(***************************************************************************)
\* the pair is an item of the list items
PairIsItemOf(items, pair) ==
    \E m \in 1..Len(items) :
       /\ GetSortKeyTuple(pair.key) = << TupleOf(SkTuple(items[m].sk)) >>
       /\ pair.value = FromDataDict(items[m].d, pair.key)

PairsInPartition(coll, pk_query, pk_tuple, ret) ==
    \A n \in 1..Len(ret) :
       /\ pk_query \in DOMAIN coll
       /\ GetPartitionKeyTuple(ret[n].key) = pk_tuple
       /\ PairIsItemOf(coll[pk_query], ret[n])

C14_EmbRangeInStartPartition ==
    \A a \in GivenKeys, b \in GivenKeys, r \in BOOLEAN :
       PairsInPartition(emb, KeyToMongoPkQuery(a), GetPartitionKeyTuple(a),
                        EmbGetRange(emb, a, b, r).ret)

\* both partitions hold items, end lies in the other partition, and the
\* range returns an item
C14_Witness ==
    \E a \in Keys, b \in Keys :
       /\ ~SamePartition(a, b)
       /\ KeyToMongoPkQuery(b) \in DOMAIN emb
       /\ emb[KeyToMongoPkQuery(b)] # << >>
       /\ \E m \in 1..Len(emb[KeyToMongoPkQuery(b)]) :
             Between(GetSortKeyTuple(a), SkTuple(emb[KeyToMongoPkQuery(b)][m].sk),
                     GetSortKeyTuple(b)) = "in"
       /\ Len(EmbGetRange(emb, a, b, FALSE).ret) > 0

(***************************************************************************)
(* C15: Embedded put is not atomic.  When two callers put the same key,    *)
(* whose sort key is not in the partition, and both make the               *)
(* match-and-update request before either makes the append request, both   *)
(* append, and the partition document ends with two items of that sort key.*)
(***************************************************************************)
SameKeyPuts(c, d, store) ==
    /\ c # d
    /\ calls[c].store = store /\ calls[d].store = store
    /\ calls[c].op = "put" /\ calls[d].op = "put"
    /\ GetKeyTuple(calls[c].key, KeyAttrs) = GetKeyTuple(calls[d].key, KeyAttrs)

BothDone(c, d) == calls[c].pc = "done" /\ calls[d].pc = "done"

C15_EmbPutRaceDuplicates ==
    \A c \in Callers, d \in Callers :
       /\ SameKeyPuts(c, d, "emb")
       /\ BothDone(c, d)
       /\ calls[c].matched_count = 0 /\ calls[d].matched_count = 0
       => Cardinality(MatchingItems(emb, KeyToMongoPkQuery(calls[c].key),
                                    GetSortKeyValue(calls[c].key))) = 2

C15_Witness ==
    \E c \in Callers, d \in Callers :
       /\ SameKeyPuts(c, d, "emb")
       /\ BothDone(c, d)
       /\ calls[c].matched_count = 0 /\ calls[d].matched_count = 0
       /\ Len(emb[KeyToMongoPkQuery(calls[c].key)]) > 2

(***************************************************************************)
(* C16: Flat put is atomic per key.  When put(k, v1) and put(k, v2) run    *)
(* concurrently on the Flat backend, every interleaving ends with exactly  *)
(* one document for k, holding either all of v1 or all of v2.              *)
(***************************************************************************)
C16_FlatPutAtomic ==
    \A c \in Callers, d \in Callers :
       SameKeyPuts(c, d, "flat") /\ BothDone(c, d)
       => /\ Cardinality({ x \in DOMAIN flat :
                              IdValues(x) = GetKeyTuple(calls[c].key, KeyAttrs) }) = 1
          /\ flat[KeyToMongoQuery(calls[c].key)]
                \in { ToDataDict(calls[c].data), ToDataDict(calls[d].data) }

C16_Witness ==
    \E c \in Callers, d \in Callers :
       /\ SameKeyPuts(c, d, "flat")
       /\ BothDone(c, d)
       /\ calls[c].data # calls[d].data
       /\ last.items # << >>
       /\ flat[KeyToMongoQuery(calls[c].key)] = ToDataDict(calls[d].data)

(***************************************************************************)
(* C17: on the In-Memory backend, a put or delete of one key interleaved   *)
(* at any point with a get_range, delete_range or get_by_index call that   *)
(* concerns other keys never makes that call fail, and the final map is    *)
(* the result of the two calls made one after the other in some order.     *)
(***************************************************************************)
\* the map the stores started with
StartMap == MemBatchPut([ t \in {} |-> EmptyDict ], last.items)

\* what the call makes of the map st when nothing runs beside it
ApplyCall(call, st) ==
    CASE call.op = "put" -> MemPut(st, call.key, call.data)
      [] call.op = "delete" -> MemDelete(st, call.key)
      [] call.op = "delete_range" -> DeleteBetween(st, call.s_tuple, call.e_tuple).st
      [] OTHER -> st

\* the key written by w is none of the keys that call r is about: it lies
\* outside the range, or neither its record nor the one put match the index
OtherKeys(r, w) ==
    IF r.op = "get_by_index"
    THEN /\ GetKeyTuple(w.key, KeyAttrs) \in DOMAIN StartMap =>
               MemGetByIndex(MapPop(StartMap, GetKeyTuple(w.key, KeyAttrs)), r.index_key)
                  = MemGetByIndex(StartMap, r.index_key)
         /\ w.op = "put" =>
               MemGetByIndex(MemPut(StartMap, w.key, w.data), r.index_key)
                  = MemGetByIndex(StartMap, r.index_key)
    ELSE Between(r.s_tuple, GetKeyTuple(w.key, KeyAttrs), r.e_tuple) = "out"

C17_OtherKeysNeverFail ==
    \A c \in Callers, d \in Callers :
       /\ calls[c].store = "mem" /\ calls[d].store = "mem"
       /\ calls[c].op \in {"get_range", "delete_range", "get_by_index"}
       /\ calls[d].op \in {"put", "delete"}
       /\ OtherKeys(calls[c], calls[d])
       => /\ calls[c].pc # "failed"
          /\ BothDone(c, d) =>
                storage \in { ApplyCall(calls[c], ApplyCall(calls[d], StartMap)),
                              ApplyCall(calls[d], ApplyCall(calls[c], StartMap)) }

(***************************************************************************)
(* C18: the partition attribute list and the sort attribute list are each  *)
(* sorted by the marker's ordinal ascending, ties kept in declaration      *)
(* order, and the key tuple is the partition attributes followed by the    *)
(* sort attributes; for the key type that declares sort field suffix       *)
(* (ordinal 2) before sort field prefix (ordinal 1), keys are ordered by   *)
(* prefix first, then suffix, by the comparison get_range makes.           *)
(***************************************************************************)
Markers == {"PartitionKey", "SortKey", ""}

\* class declarations of up to three fields a, b, c
HintLists ==
    UNION { { [ i \in 1..n |-> Field(<< "a", "b", "c" >>[i], m[i], o[i]) ] :
                m \in [1..n -> Markers], o \in [1..n -> 0..MaxSort] } : n \in 0..3 }

DeclaredAt(h, name) == CHOOSE i \in 1..Len(h) : h[i].name = name

\* names lists the fields of h marked m, by order and then by declaration
ByOrdinal(h, m, names) ==
    /\ { names[i] : i \in 1..Len(names) } = NamesOf(Marked(h, m))
    /\ Len(names) = Cardinality(NamesOf(Marked(h, m)))
    /\ \A i \in 1..Len(names), j \in 1..Len(names) :
          i < j =>
             \/ h[DeclaredAt(h, names[i])].order < h[DeclaredAt(h, names[j])].order
             \/ /\ h[DeclaredAt(h, names[i])].order = h[DeclaredAt(h, names[j])].order
                /\ DeclaredAt(h, names[i]) < DeclaredAt(h, names[j])

OrderedKeys ==
    { Obj("OrderedKey", [suffix |-> s, prefix |-> p, partition |-> 1]) :
        s \in 0..MaxSort, p \in 0..MaxSort }

PrefixFirstLeq(k1, k2) ==
    \/ k1.f.prefix < k2.f.prefix
    \/ k1.f.prefix = k2.f.prefix /\ k1.f.suffix <= k2.f.suffix

\* the In-Memory comparison of the key tuples and the Flat one of the ids
ComparedLeq(t1, t2, key_attrs) ==
    /\ CmpTuple(t1, t2) \in {"lt", "eq"}
    /\ BsonDocLeq(MongoDoc(key_attrs, t1), MongoDoc(key_attrs, t2))

C18_KeySchemaOrdering ==
    /\ ByOrdinal(Hints(KeyType), "PartitionKey", PartitionAttrs)
    /\ ByOrdinal(Hints(KeyType), "SortKey", SortAttrs)
    /\ KeyAttrs = PartitionAttrs \o SortAttrs
    /\ \A h \in HintLists :
          /\ ByOrdinal(h, "PartitionKey", Names(StableSort(Marked(h, "PartitionKey"))))
          /\ ByOrdinal(h, "SortKey", Names(StableSort(Marked(h, "SortKey"))))
    /\ \A cls \in {"MyKey", "CategoryIndex", "OrderedKey"} :
          /\ ByOrdinal(Hints(cls), "PartitionKey", DiscoverAttrsFor(cls).partition)
          /\ ByOrdinal(Hints(cls), "SortKey", DiscoverAttrsFor(cls).sort)
          /\ DiscoverAttrsFor(cls).all
                = DiscoverAttrsFor(cls).partition \o DiscoverAttrsFor(cls).sort
    /\ DiscoverAttrsFor("OrderedKey").all = << "partition", "prefix", "suffix" >>
    /\ \A k1 \in OrderedKeys, k2 \in OrderedKeys :
          PrefixFirstLeq(k1, k2) =>
             ComparedLeq(GetKeyTuple(k1, DiscoverAttrsFor("OrderedKey").all),
                         GetKeyTuple(k2, DiscoverAttrsFor("OrderedKey").all),
                         DiscoverAttrsFor("OrderedKey").all)

(***************************************************************************)
(* C19: whenever a read (get, batch_get, get_range, get_by_index,          *)
(* get_by_index_range, and the iterators built on them) returns a typed    *)
(* value whose type declares a CopyOfKey field, that field holds the key   *)
(* under which the record is stored.                                       *)
(***************************************************************************)
\* v is a typed value whose CopyOfKey fields hold a key that reads v back
MirrorsKey(i, v) ==
    v.kind = "obj" =>
       \A a \in CopyOfKeyFields(v.cls) : v.f[a] \in ConcKeys /\ GetOn(i, v.f[a]) = v

MirrorsIn(i, bag) == \A v \in DOMAIN bag : MirrorsKey(i, v)

MirrorsInRange(i, res) ==
    ~res.raised => \A n \in 1..Len(res.ret) : MirrorsKey(i, res.ret[n].value)

MirrorsInGroups(i, res) ==
    ~res.raised => \A n \in 1..Len(res.ret) : MirrorsIn(i, res.ret[n].vals)

ConcKeySets == SUBSET ConcKeys \ {{}}

C19_CopyOfKeyOnEveryRead ==
    /\ \A k \in ConcKeys, i \in 1..3 :
          GetOn(i, k).kind = "obj" =>
             \A a \in CopyOfKeyFields(DataType) : GetOn(i, k).f[a] = k
    /\ \A S \in ConcKeySets :
          /\ \A k \in DOMAIN MemBatchGet(storage, S) : MirrorsKey(1, MemBatchGet(storage, S)[k])
          /\ \A pick \in KeyMaps(S) :
                \A k \in DOMAIN FlatBatchGet(flat, S, pick) :
                   MirrorsKey(2, FlatBatchGet(flat, S, pick)[k])
          /\ \A k \in DOMAIN EmbBatchGet(emb, S) : MirrorsKey(3, EmbBatchGet(emb, S)[k])
    /\ \A idx \in Indexes :
          /\ MirrorsIn(1, MemGetByIndex(storage, idx))
          /\ MirrorsIn(2, FlatGetByIndex(flat, idx))
          /\ MirrorsIn(3, EmbGetByIndex(emb, idx))
    /\ \A s_idx \in Indexes, e_idx \in Indexes, r \in BOOLEAN :
          /\ MirrorsInGroups(1, MemGetByIndexRange(storage, s_idx, e_idx, r))
          /\ MirrorsInGroups(2, FlatGetByIndexRange(flat, s_idx, e_idx, r))
          /\ MirrorsInGroups(3, EmbGetByIndexRange(emb, s_idx, e_idx, r))
    /\ \A a \in ConcKeys, b \in ConcKeys, r \in BOOLEAN :
          /\ MirrorsInRange(1, MemGetRange(storage, a, b, r))
          /\ MirrorsInRange(2, FlatGetRange(flat, a, b, r))
          /\ MirrorsInRange(3, EmbGetRange(emb, a, b, r))

(***************************************************************************)
(* C20: the field map persisted by put never contains the value type's     *)
(* CopyOfKey field nor any field whose name starts with an underscore.     *)
(***************************************************************************)
Persistable(d) == \A a \in DOMAIN d : ~IsPrivate(a) /\ a \notin CopyOfKeyFields(DataType)

YieldsAll(run, res) ==
    IF res.raised THEN run.raised ELSE ~run.raised /\ run.yielded = res.ret

C21_IteratorsYieldTheRange ==
    /\ \A a \in Keys, b \in Keys, r \in BOOLEAN :
          /\ YieldsAll(MemGetRangeIterator(storage, a, b, r), MemGetRange(storage, a, b, r))
          /\ YieldsAll(FlatGetRangeIterator(flat, a, b, r), FlatGetRange(flat, a, b, r))
          /\ YieldsAll(EmbGetRangeIterator(emb, a, b, r), EmbGetRange(emb, a, b, r))
    /\ \A s_idx \in Indexes, e_idx \in Indexes, r \in BOOLEAN :
          /\ YieldsAll(MemGetIndexRangeIterator(storage, s_idx, e_idx, r),
                       MemGetByIndexRange(storage, s_idx, e_idx, r))
          /\ YieldsAll(FlatGetIndexRangeIterator(flat, s_idx, e_idx, r),
                       FlatGetByIndexRange(flat, s_idx, e_idx, r))
          /\ YieldsAll(EmbGetIndexRangeIterator(emb, s_idx, e_idx, r),
                       EmbGetByIndexRange(emb, s_idx, e_idx, r))

\* a reverse range over two stored records and an index range over two
\* groups are both yielded in full
C21_Witness ==
    /\ \E a \in GivenKeys, b \in GivenKeys :
          /\ Len(FlatGetRange(flat, a, b, TRUE).ret) >= 2
          /\ FlatGetRangeIterator(flat, a, b, TRUE).yielded = FlatGetRange(flat, a, b, TRUE).ret
          /\ FlatGetRange(flat, a, b, TRUE).ret # FlatGetRange(flat, a, b, FALSE).ret
    /\ \E s_idx \in Indexes, e_idx \in Indexes :
          /\ ~FlatGetByIndexRange(flat, s_idx, e_idx, FALSE).raised
          /\ Len(FlatGetIndexRangeIterator(flat, s_idx, e_idx, FALSE).yielded) >= 1
          /\ ~MemGetByIndexRange(storage, s_idx, e_idx, FALSE).raised
          /\ Len(MemGetIndexRangeIterator(storage, s_idx, e_idx, FALSE).yielded) >= 1

(***************************************************************************)
(* C22: on the Embedded backend, put of a key whose sort key is not yet    *)
(* present in an existing partition appends exactly one item and leaves    *)
(* every existing item of that partition (sort key, fields, position) and  *)
(* every other partition unchanged.                                        *)
(***************************************************************************)
\* coll2 is coll with one item appended to the existing document pk
AppendedTo(coll, coll2, pk, item) ==
    /\ DOMAIN coll2 = DOMAIN coll
    /\ coll2[pk] = Append(coll[pk], item)
    /\ \A p \in DOMAIN coll \ {pk} : coll2[p] = coll[p]

PutOfNewSortKey(coll, key) ==
    /\ KeyToMongoPkQuery(key) \in DOMAIN coll
    /\ MatchingItems(coll, KeyToMongoPkQuery(key), GetSortKeyValue(key)) = {}

C22_EmbPutAppends ==
    [][ (last'.op = "put" /\ PutOfNewSortKey(emb, last'.key))
        => AppendedTo(emb, emb', KeyToMongoPkQuery(last'.key),
                      Item(GetSortKeyValue(last'.key), ToDataDict(last'.data))) ]_vars

\* the last put added a third item behind two existing ones
C22_Witness ==
    /\ last.op = "put"
    /\ last.prev = NoneVal
    /\ KeyToMongoPkQuery(last.key) \in DOMAIN emb
    /\ Len(emb[KeyToMongoPkQuery(last.key)]) = 3
    /\ emb[KeyToMongoPkQuery(last.key)][3] =
          Item(GetSortKeyValue(last.key), ToDataDict(last.data))
    /\ \A i \in 1..2 : emb[KeyToMongoPkQuery(last.key)][i].sk # GetSortKeyValue(last.key)

(***************************************************************************)
(* C23: batch_put gives no cross-key atomicity: a reader running           *)
(* concurrently with batch_put({k1: v1, k2: v2}) can observe a state in    *)
(* which the record of one key is already stored and the record of the     *)
(* other is not yet.  Every step of batch_put stores the record of one     *)
(* key and leaves the records of all other keys as they were.              *)
(***************************************************************************)
Putting(c) == calls[c].pc = "putting"

OneKeyStored(c, k) ==
    /\ calls[c].store = "mem" =>
          /\ MemGet(storage', k) = FromDataDict(ToDataDict(Head(calls[c].todo)[2]), k)
          /\ \A j \in ConcKeys \ {k} : MemGet(storage', j) = MemGet(storage, j)
    /\ calls[c].store = "emb" =>
          /\ EmbGet(emb', k) = FromDataDict(ToDataDict(Head(calls[c].todo)[2]), k)
          /\ \A j \in ConcKeys \ {k} : EmbGet(emb', j) = EmbGet(emb, j)

C23_BatchPutOneKeyPerStep ==
    [][ \A c \in Callers :
          (Putting(c) /\ calls'[c] # calls[c]) => OneKeyStored(c, Head(calls[c].todo)[1]) ]_vars

\* while caller c is between its two puts, the other caller has finished a
\* get_range over both keys that returned the first record and not the second
C23_Witness ==
    \E c \in Callers, d \in Callers :
       /\ Putting(c) /\ calls[c].store = "mem" /\ Len(calls[c].todo) = 1
       /\ \A i \in 1..Len(last.items) : last.items[i][1] \notin
                                             { calls[c].items[n][1] : n \in 1..MaxBatch }
       /\ calls[d].pc = "done" /\ calls[d].op = "get_range"
       /\ Between(calls[d].s_tuple, GetKeyTuple(calls[c].todo[1][1], KeyAttrs),
                  calls[d].e_tuple) = "in"
       /\ \E n \in 1..Len(calls[d].ret) : calls[d].ret[n].key = calls[c].items[1][1]
       /\ \A n \in 1..Len(calls[d].ret) : calls[d].ret[n].key # calls[c].todo[1][1]
       /\ MemGet(storage, calls[c].todo[1][1]) = NoneVal

(***************************************************************************)
(* C24: create_table is idempotent: calling it when the underlying         *)
(* container already exists (including a second call in a row) raises no   *)
(* error and leaves every stored record unchanged.                         *)
(***************************************************************************)
C24_CreateTableIdempotent ==
    [][ (last'.op = "create_table" /\ nops' # nops)
        => /\ ~last'.raised
           /\ UNCHANGED << storage, flat, emb >>
           /\ tables' = MongoStores ]_vars

\* create_table was called twice in a row on stores that hold a record
C24_Witness ==
    /\ last.op = "create_table"
    /\ last.again
    /\ last.existed = MongoStores
    /\ ~last.raised
    /\ DOMAIN storage # {} /\ DOMAIN flat # {} /\ DOMAIN emb # {}

(***************************************************************************)
(* C25: InMemorySessionStore expiry is a sliding window: every successful  *)
(* get_session, update_session, put or put_array_item restarts the         *)
(* session's idle clock, so a session that is accessed at intervals not    *)
(* longer than its ttl never expires, however long ago it was created.     *)
(***************************************************************************)
Accesses == {"get_session", "update_session", "put", "put_array_item"}

\* the session exists and not more than its ttl has passed since its last access
WithinTtl(ss, i, t) == i \in DOMAIN ss /\ t - ss[i].last_access <= ss[i].ttl

Accessed(i) == last'.op \in Accesses /\ nops' # nops /\ last'.session_id = i

C25_SlidingWindow ==
    [][ \A i \in SessionIds :
          (Accessed(i) /\ WithinTtl(sessions, i, now))
          => /\ i \in DOMAIN sessions'
             /\ sessions'[i].last_access = now
             /\ sessions'[i].ttl = sessions[i].ttl
             /\ \A t \in now..(now + sessions[i].ttl) : WithinTtl(sessions', i, t)
             /\ last'.op = "get_session" /\ last'.item = NoItem
                  => last'.ret = sessions[i].object ]_vars

\* a get_session made exactly ttl after the previous access, later than
\* one ttl after the start, returned the object and restarted the clock
C25_Witness ==
    /\ last.op = "get_session"
    /\ last.checked.found
    /\ last.session_id \in DOMAIN sessions
    /\ last.checked.elapsed = sessions[last.session_id].ttl
    /\ now > sessions[last.session_id].ttl
    /\ nops = MaxOps
    /\ last.ret # NoneVal
    /\ sessions[last.session_id].last_access = now

(***************************************************************************)
(* C26: once more than ttl seconds have passed since the last access of a  *)
(* session, or after delete_session, the session is gone: get_session      *)
(* returns None, and update_session, put and put_array_item on that id     *)
(* have no effect and do not recreate it; only create_session makes the    *)
(* id live again.                                                          *)
(***************************************************************************)
C26_ExpiredStaysGone ==
    [][ /\ \A i \in SessionIds :
             ~WithinTtl(sessions, i, now)
             => /\ WithinTtl(sessions', i, now')
                     => (last'.op = "create_session" /\ last'.session_id = i)
                /\ Accessed(i) => i \notin DOMAIN sessions'
                /\ (Accessed(i) /\ last'.op = "get_session") => last'.ret = NoneVal
        /\ (last'.op = "delete_session" /\ nops' # nops)
             => last'.session_id \notin DOMAIN sessions' ]_vars

\* a put on a session that was found but had expired left no session
C26_Witness ==
    /\ last.op = "put"
    /\ last.checked.found
    /\ last.checked.elapsed > MaxTTL
    /\ last.session_id \notin DOMAIN sessions

(***************************************************************************)
(* C27: put_array_item(session, name, index, value) on a live session      *)
(* appends value to the list stored under name when index is -1 or equals  *)
(* the list's current length, replaces the element at index when           *)
(* 0 <= index < length, and leaves the list's elements unchanged for any   *)
(* other index; every other item of the session object is unchanged.       *)
(***************************************************************************)
\* the items of a session object, and the list stored under a name (empty
\* when there is none)
ItemsIn(obj) == IF obj.kind = "dict" THEN obj.f ELSE EmptyDict

ListUnder(obj, name) ==
    IF name \in DOMAIN ItemsIn(obj)
    THEN IF ItemsIn(obj)[name].kind = "list" THEN ItemsIn(obj)[name].xs ELSE << >>
    ELSE << >>

ArrayItemPut(old, new, name, index, value) ==
    /\ new.kind = "dict"
    /\ name \in DOMAIN new.f
    /\ new.f[name].kind = "list"
    /\ (index = 0 - 1 \/ index = Len(ListUnder(old, name)))
         => new.f[name].xs = Append(ListUnder(old, name), value)
    /\ (0 <= index /\ index < Len(ListUnder(old, name)))
         => /\ Len(new.f[name].xs) = Len(ListUnder(old, name))
            /\ \A n \in 1..Len(ListUnder(old, name)) :
                  new.f[name].xs[n] = IF n = index + 1 THEN value
                                      ELSE ListUnder(old, name)[n]
    /\ (index < 0 - 1 \/ index > Len(ListUnder(old, name)))
         => new.f[name].xs = ListUnder(old, name)
    /\ DOMAIN new.f = DOMAIN ItemsIn(old) \cup {name}
    /\ \A n \in DOMAIN ItemsIn(old) \ {name} : new.f[n] = ItemsIn(old)[n]

C27_PutArrayItem ==
    [][ (last'.op = "put_array_item" /\ nops' # nops
         /\ WithinTtl(sessions, last'.session_id, now))
        => /\ last'.session_id \in DOMAIN sessions'
           /\ ArrayItemPut(sessions[last'.session_id].object,
                           sessions'[last'.session_id].object,
                           last'.array_item, last'.index, last'.value) ]_vars

\* an element was put at index 1 of a list that now has two elements,
\* next to another item
C27_Witness ==
    /\ last.op = "put_array_item"
    /\ last.index = 1
    /\ last.session_id \in DOMAIN sessions
    /\ DOMAIN ItemsIn(sessions[last.session_id].object) = ItemNames
    /\ Len(ListUnder(sessions[last.session_id].object, last.array_item)) = 2
    /\ ListUnder(sessions[last.session_id].object, last.array_item)[2] = last.value

(***************************************************************************)
(* C28: after a complete_upload request that took its frames from the      *)
(* session session_id has succeeded, the session is deleted, and a second  *)
(* complete_upload with the same session_id and no results returns a       *)
(* response whose status is "error".                                       *)
(***************************************************************************)
CompletedFromSession ==
    /\ last.op = "complete_upload"
    /\ last.status = "success"
    /\ last.from = "session"

CompletesAgain ==
    /\ last'.op = "complete_upload"
    /\ nops' # nops
    /\ last'.session_id = last.session_id
    /\ ~last'.explicit

C28_SecondCompleteIsError ==
    [][ CompletedFromSession
        => /\ last.session_id \notin DOMAIN sessions
           /\ CompletesAgain => last'.status = "error" ]_vars

(***************************************************************************)
(* C29: complete_upload called with an explicit non-empty results list and *)
(* no session_id succeeds: it returns status "success" with the            *)
(* proximity-deduplicated books, and proximity_deduped equals the number   *)
(* of input books minus the number of returned books.                      *)
(***************************************************************************)
C29_ExplicitResultsSucceed ==
    (last.op = "complete_upload" /\ last.explicit /\ last.session_id = NoSession)
    => /\ last.status = "success"
       /\ last.proximity_deduped = last.n_input - Len(last.books)

(***************************************************************************)
(* C30: deduplicate_counting returns one entry per distinct book key (the  *)
(* ISBN when present, otherwise the lower-cased, trimmed title and         *)
(* author), in order of first occurrence, and each entry's count equals    *)
(* the number of input books with that key, so the counts sum to the       *)
(* length of the input.                                                    *)
(***************************************************************************)
BookKey(book) ==
    IF book.isbn # << >>
    THEN [isbn |-> book.isbn, title |-> << >>, author |-> << >>]
    ELSE [isbn |-> << >>, title |-> Strip(Lower(book.title)),
          author |-> Strip(Lower(book.author))]

\* the positions of the books that are the first of their key
Firsts(books) ==
    { n \in 1..Len(books) : \A m \in 1..(n - 1) : BookKey(books[m]) # BookKey(books[n]) }

RECURSIVE SumOfCounts(_)
SumOfCounts(entries) ==
    IF entries = << >> THEN 0 ELSE Head(entries).count + SumOfCounts(Tail(entries))

OnePerKey(books, ret) ==
    /\ Len(ret) = Cardinality(Firsts(books))
    /\ \A n \in 1..Len(ret) :
         /\ \E i \in Firsts(books) :
              /\ Cardinality({ j \in Firsts(books) : j <= i }) = n
              /\ BookKey(ret[n].book) = BookKey(books[i])
         /\ ret[n].count
              = Cardinality({ i \in 1..Len(books) : BookKey(books[i]) = BookKey(ret[n].book) })
    /\ SumOfCounts(ret) = Len(books)

C30_CountingOnePerKey ==
    last.op = "deduplicate_counting"
    => (~last.raised /\ OnePerKey(last.books, last.ret))

(***************************************************************************)
(* C31: deduplicate_proximity merges a book into an earlier entry iff both *)
(* have the same non-empty ISBN and the same count and the earlier entry's *)
(* key is among the last window_size distinct keys kept; a book without    *)
(* ISBN is never merged; after the call the surviving entry's frame_ids    *)
(* holds the frame_id of the entry and of every book merged into it, each  *)
(* once.                                                                   *)
(***************************************************************************)
\* the entries the claim describes: each with the position of the book it
\* was made of and the positions of the books merged into it; kept is the
\* keys kept, the oldest first, each with its entry
MergeKey(book) == << book.isbn, book.count >>

KeptAt(kept, key) == { n \in 1..Len(kept) : kept[n].key = key }

LastKept(kept, window_size) ==
    IF Len(kept) > window_size THEN Tail(kept) ELSE kept

RECURSIVE MergedInto(_, _, _, _, _)
MergedInto(books, n, entries, kept, window_size) ==
    IF n > Len(books) THEN entries
    ELSE IF books[n].isbn # "" /\ KeptAt(kept, MergeKey(books[n])) # {}
    THEN MergedInto(books, n + 1,
             [entries EXCEPT ![kept[CHOOSE m \in KeptAt(kept, MergeKey(books[n])) : TRUE].entry]
                                 = Append(@, n)],
             kept, window_size)
    ELSE MergedInto(books, n + 1, Append(entries, << n >>),
             IF books[n].isbn # ""
             THEN LastKept(Append(kept, [key |-> MergeKey(books[n]), entry |-> Len(entries) + 1]),
                           window_size)
             ELSE kept,
             window_size)

\* the frame ids of the books at the positions, None left out
FrameIdsAt(books, at) == { books[at[n]].frame_id : n \in 1..Len(at) } \ {PyNone}

HoldsEachOnce(frame_ids, ids) ==
    /\ { frame_ids[n] : n \in 1..Len(frame_ids) } = ids
    /\ Len(frame_ids) = Cardinality(ids)

AsMerged(books, ret, entries) ==
    /\ Len(ret) = Len(entries)
    /\ \A n \in 1..Len(entries) :
         /\ ret[n].isbn = books[entries[n][1]].isbn
         /\ ret[n].count = books[entries[n][1]].count
         /\ ret[n].frame_id = books[entries[n][1]].frame_id
         /\ HoldsEachOnce(ret[n].frame_ids, FrameIdsAt(books, entries[n]))

C31_ProximityMerges ==
    last.op = "deduplicate_proximity"
    => AsMerged(last.books, last.ret,
                MergedInto(last.books, 1, << >>, << >>, last.window_size))

(***************************************************************************)
(* C32: deduplicate_richness drops every book without a usable title       *)
(* (missing, empty or "null") and, for books with the same title seen      *)
(* within the window, keeps the candidate with the most non-empty metadata *)
(* fields and gives it a count equal to the sum of the counts of the       *)
(* merged books.  Checked for the lists that are not longer than the       *)
(* window, all of whose books are within it.                               *)
(***************************************************************************)
Usable(book) == book.title # "" /\ LowerStr(book.title) # "null"

SameTitle(books, title) ==
    { n \in 1..Len(books) : Usable(books[n]) /\ LowerStr(books[n].title) = LowerStr(title) }

\* the non-empty metadata fields of a book
MetadataFields(book) ==
    Cardinality({ v \in {<< "title", book.title >>, << "author", book.author >>,
                         << "publisher", book.publisher >>} :
                    v[2] # "" /\ LowerStr(v[2]) # "null" })

RECURSIVE SumCounts(_, _)
SumCounts(books, at) ==
    IF at = {} THEN 0
    ELSE (IF books[CHOOSE n \in at : TRUE].count = PyNone THEN 1
          ELSE books[CHOOSE n \in at : TRUE].count)
         + SumCounts(books, at \ {CHOOSE n \in at : TRUE})

RichestPerTitle(books, ret) ==
    /\ \A n \in 1..Len(ret) : Usable(ret[n])
    /\ \A n \in 1..Len(books) :
         Usable(books[n])
         => \E m \in 1..Len(ret) : LowerStr(ret[m].title) = LowerStr(books[n].title)
    /\ \A n, m \in 1..Len(ret) :
         LowerStr(ret[n].title) = LowerStr(ret[m].title) => n = m
    /\ \A n \in 1..Len(ret) :
         /\ \E i \in SameTitle(books, ret[n].title) :
              /\ ret[n].title = books[i].title
              /\ ret[n].author = books[i].author
              /\ ret[n].publisher = books[i].publisher
         /\ \A i \in SameTitle(books, ret[n].title) :
              MetadataFields(books[i]) <= MetadataFields(ret[n])
         /\ ret[n].count = SumCounts(books, SameTitle(books, ret[n].title))

C32_RichestKept ==
    (last.op = "deduplicate_richness" /\ Len(last.books) <= last.window_size)
    => RichestPerTitle(last.books, last.ret)

(***************************************************************************)
(* C33: on the Embedded backend, as long as the put calls for any one key  *)
(* never overlap in time, no partition document ever holds two items with  *)
(* the same sort key, after any sequence of put, batch_put, delete and     *)
(* delete_range.  A put is overlapped by another put of its key exactly    *)
(* when the item is in the document at its append request (its update      *)
(* request found none): only such an append makes a second item, and then  *)
(* the other caller is a writer of the key.                                *)
(***************************************************************************)
NoTwoItems(coll) ==
    \A p \in DOMAIN coll : \A i \in 1..Len(coll[p]) : \A j \in 1..Len(coll[p]) :
        coll[p][i].sk = coll[p][j].sk => i = j

PutOverlapped(c) ==
    /\ At(c, "emb", "put", "push")
    /\ MatchingItems(emb, KeyToMongoPkQuery(calls[c].key), GetSortKeyValue(calls[c].key)) # {}

WritesKeyOf(d, c) ==
    /\ calls[d].store = "emb"
    /\ \/ calls[d].op = "batch_put"
       \/ /\ calls[d].op = "put"
          /\ GetKeyTuple(calls[d].key, KeyAttrs) = GetKeyTuple(calls[c].key, KeyAttrs)

Mismatched(data) ==
    ~CanConstruct(DataType, DataForInit(data, CopyOfKeyFields(DataType)))

IndexOf(data) == Obj("CategoryIndex", [category |-> DictGet(data, "category")])

GetsRaw(k) ==
    /\ GetKeyTuple(k, KeyAttrs) \in DOMAIN storage /\ Mismatched(storage[GetKeyTuple(k, KeyAttrs)])
         => MemGet(storage, k) = Dict(storage[GetKeyTuple(k, KeyAttrs)])
    /\ KeyToMongoQuery(k) \in DOMAIN flat /\ Mismatched(flat[KeyToMongoQuery(k)])
         => FlatGet(flat, k) = Dict(flat[KeyToMongoQuery(k)])
    /\ EmbGet(emb, k) # NoneVal => EmbGet(emb, k).kind \in {"obj", "dict"}

IndexReadsRaw(t) ==
    /\ Dict(storage[t]) \in DOMAIN MemGetByIndex(storage, IndexOf(storage[t]))
    /\ \A s_idx \in Indexes, e_idx \in Indexes, r \in BOOLEAN :
          ~MemGetByIndexRange(storage, s_idx, e_idx, r).raised

C34_MismatchReadsRaw ==
    /\ \A k \in Keys : GetsRaw(k)
    /\ \A t \in DOMAIN storage : Mismatched(storage[t]) => IndexReadsRaw(t)

(***************************************************************************)
(* C35: when a typed key cannot be constructed from a tuple (no key type   *)
(* is known, or the key type's constructor fails), key reconstruction does *)
(* not raise: it returns the raw tuple, or the bare scalar when the tuple  *)
(* has exactly one component.                                              *)
(***************************************************************************)
Reconstructs == last.op = "reconstruct_key"

\* after the call, attrs holds the lists the constructor's kwargs were taken from
ConstructorFails ==
    IsClass(key_type) /\ DOMAIN Kwargs(attrs.all, last.arg) # FieldNames(key_type)

C35_ReconstructFallsBack ==
    Reconstructs /\ (key_type = "" \/ ConstructorFails)
       => last.ret = IF Len(last.arg) = 1 THEN Scalar(last.arg[1]) ELSE Tup(last.arg)

\* the constructor of the key type failed on a tuple of two components, and
\* the tuple came back
C35_Witness ==
    /\ Reconstructs /\ ConstructorFails
    /\ Len(last.arg) = 2
    /\ last.ret = Tup(last.arg)

(***************************************************************************)
(* C36: key reconstruction is lenient about length: tuple components       *)
(* beyond the number of key attributes are ignored, and when the tuple has *)
(* fewer components than the key type has attributes the result is still a *)
(* typed key of that type (its missing attributes absent).                 *)
(***************************************************************************)
\* the instance resolved its lists on its own key type
OwnSchema == IsClass(key_type) /\ attrs.all # << >> /\ attrs = DiscoverAttrsFor(key_type)

TypedFrom(values) ==
    /\ last.ret.kind = "obj"
    /\ last.ret.cls = key_type
    /\ \A i \in 1..Len(attrs.all) :
          IF i <= Len(values)
          THEN attrs.all[i] \in DOMAIN last.ret.f /\ last.ret.f[attrs.all[i]] = values[i]
          ELSE attrs.all[i] \notin DOMAIN last.ret.f

C36_LenientAboutLength == Reconstructs /\ OwnSchema => TypedFrom(last.arg)

(***************************************************************************)
(* C36, as the code has it: components beyond the number of key attributes *)
(* are ignored, and a tuple with fewer components than the key type has    *)
(* attributes does not make a typed key: the attributes of the key types   *)
(* are all required, the constructor fails, and the raw tuple (the bare    *)
(* scalar for one component) is returned.                                  *)
(***************************************************************************)
C36_LenientAboutExtraOnly ==
    Reconstructs /\ OwnSchema =>
       IF Len(last.arg) >= Len(attrs.all) THEN TypedFrom(last.arg)
       ELSE last.ret = IF Len(last.arg) = 1 THEN Scalar(last.arg[1]) ELSE Tup(last.arg)

\* a tuple longer than the key attributes made a typed key
C36_Witness ==
    /\ Reconstructs /\ OwnSchema
    /\ Len(last.arg) > Len(attrs.all)
    /\ last.ret.kind = "obj"

(***************************************************************************)
(* C37: key schema resolution does not raise: for a type without           *)
(* partition/sort markers, or whose annotations cannot be introspected, it *)
(* yields empty partition and sort attribute lists, and a scalar or tuple  *)
(* key is then used as is (a scalar as a one-component tuple).             *)
(***************************************************************************)
Unmarked(cls) ==
    \/ cls \in Unresolvable
    \/ \A i \in 1..Len(Hints(cls)) : Hints(cls)[i].marker \notin {"PartitionKey", "SortKey"}

Resolves == last.op \in {"get_partition_key_tuple", "get_sort_key_tuple"}

AsIs(obj) == IF obj.kind = "scalar" THEN << obj.v >> ELSE obj.t

C37_ResolutionYieldsEmpty ==
    /\ Resolves /\ last.before.all = << >> /\ Unmarked(TypeOf(last.arg))
         => /\ attrs.partition = << >> /\ attrs.sort = << >>
            /\ last.arg.kind \in {"scalar", "tuple"}
                 => last.ret = IF last.op = "get_sort_key_tuple" THEN << >> ELSE AsIs(last.arg)
    /\ last.op = "get_key_tuple" /\ last.arg.kind \in {"scalar", "tuple"}
         => last.ret = AsIs(last.arg)

\* the lists were looked for on a class whose annotations cannot be read
C37_Witness ==
    /\ Resolves /\ last.before.all = << >>
    /\ TypeOf(last.arg) \in Unresolvable
    /\ attrs = Discovered(<< >>, << >>)

(***************************************************************************)
(* C38: once a store instance has resolved a non-empty key schema (key,    *)
(* partition and sort attribute lists), no later operation, with a key of  *)
(* whatever type, changes those lists.                                     *)
(***************************************************************************)
C38_SchemaIsKept == [][ attrs.all # << >> => attrs' = attrs ]_vars

\* the sort list was empty and was looked for again, on a key of a class
\* that has sort attributes
C38_Witness ==
    /\ last.op = "get_sort_key_tuple"
    /\ last.before.all # << >> /\ last.before.sort = << >>
    /\ DiscoverAttrsFor(TypeOf(last.arg)).sort # << >>
    /\ attrs = last.before

(***************************************************************************)
(* C39: on the In-Memory backend a range iterator reads the store when its *)
(* first element is requested, not when get_range_iterator is called, and  *)
(* from then on yields a fixed snapshot: what it has yielded is always the *)
(* beginning of get_range on the store as it was at the first request, and *)
(* all of it when the iterator is exhausted, whatever was put or deleted   *)
(* before and after.                                                       *)
(***************************************************************************)
Iterating ==
    /\ calls[Generator].pc \in {"running", "done"}
    /\ calls[Generator].op = "get_range_iterator"

RangeOf(frame, st) == MemGetRange(st, frame.start_key, frame.end_key, frame.reverse)

YieldsSnapshot(frame) ==
    /\ frame.raised = RangeOf(frame, frame.read).raised
    /\ ~frame.raised =>
         /\ Len(frame.out) <= Len(RangeOf(frame, frame.read).ret)
         /\ frame.out = SubSeq(RangeOf(frame, frame.read).ret, 1, Len(frame.out))
         /\ frame.pc = "done" => frame.out = RangeOf(frame, frame.read).ret

C39_IteratorSnapshot ==
    /\ [](Iterating => YieldsSnapshot(calls[Generator]))
    /\ [][ /\ calls[Generator].pc = "created" /\ calls'[Generator].pc # "created"
             => calls'[Generator].read = storage
           /\ calls[Generator].pc = "running" =>
                /\ calls'[Generator].items = calls[Generator].items
                /\ calls'[Generator].read = calls[Generator].read ]_vars

\* the iterator yielded two elements and is exhausted; the store was
\* changed between the call and the first element, and what was put shows
\* in the elements; it was changed again after the first element, and the
\* elements are not what a get_range of the store returns now
C39_Witness ==
    /\ Iterating /\ calls[Generator].pc = "done"
    /\ Len(calls[Generator].out) = 2
    /\ calls[Generator].out # RangeOf(calls[Generator], calls[Generator].made).ret
    /\ calls[Generator].out # RangeOf(calls[Generator], storage).ret

(***************************************************************************)
(* C40: after complete_upload, every deduplicated book assigned to a shelf *)
(* is stored in the library book store under the key (user_id, library_id, *)
(* shelf, book_id), where book_id is the ISBN when the book has one and    *)
(* "title|author" otherwise, and the records previously stored for that    *)
(* shelf are replaced by the new ones.                                     *)
(***************************************************************************)
Completed == last.op = "complete_upload" /\ last.status = "success"

LibraryKey(shelf, book) == << last.library_id, shelf, BookId(book) >>

IsStored(shelf, book) ==
    /\ LibraryKey(shelf, book) \in DOMAIN uploads.user_books
    /\ uploads.user_books[LibraryKey(shelf, book)].isbn = book.isbn

OnlyNewOn(shelf) ==
    \A k \in DOMAIN uploads.user_books :
       k[1] = last.library_id /\ k[2] = shelf
          => \E n \in 1..Len(last.books) :
                shelf \in StoredOn(last.books[n]) /\ k = LibraryKey(shelf, last.books[n])

C40_BooksStoredByShelf ==
    Completed =>
       \A n \in 1..Len(last.books) : \A shelf \in StoredOn(last.books[n]) :
          IsStored(shelf, last.books[n]) /\ OnlyNewOn(shelf)

====
